---------------------------- MODULE Spec2Model ----------------------------
(***************************************************************************)
(* State-machine model of the modbus-simulator repository.                 *)
(*                                                                         *)
(*  - the subscription hub (src/web/websocket_manager.py, routes.py,       *)
(*    tasks.py, web_monitor.py): two connection pools, each guarded by a   *)
(*    non-reentrant asyncio.Lock, the endpoint tasks, the device poller,   *)
(*    the system-status queue and the heartbeat checkers;                  *)
(*  - the simulation engine (src/modbus/modbus_simulator.py, with the      *)
(*    cache, the generator and the shared state of src/core/config.py);    *)
(*  - the messages of subscribers: the endpoints of routes.py and          *)
(*    WebSocketManager._handle_control.                                    *)
(*                                                                         *)
(* Tasks of one event loop interleave only at their suspension points, so  *)
(* one action is the code between two awaits that can suspend.  An         *)
(* uncontended `async with lock` does not suspend.                         *)
(*                                                                         *)
(* Time is counted in units of 100 ms (UnitsPerSecond).                    *)
(***************************************************************************)
EXTENDS Integers, Sequences, FiniteSets, TLC

(***************************************************************************)
(* Bounds of the model.                                                    *)
(***************************************************************************)
\* websockets that clients open during one run
NumWS == 3
\* ConnectionManager(max_connections=100), scaled so that a full pool is reached
MaxConnections == 2
\* messages the pollers produce during one run (device broadcasts, system-status puts)
MaxMsgs == 2
\* advances of the wall clock during one run
MaxClockSteps == 1
\* passes of the engine's update loop during one run
MaxTicks == 3
\* device updates that fail during one run
MaxFailures == 1
\* failed device updates in the specification of the error handling (SpecErrors)
MaxErrors == 5
\* register writes of remote protocol clients during one run
MaxWrites == 1
\* clock advances between the calls of the cache's operations (SpecCache)
MaxCacheSteps == 3
\* messages an endpoint task sends to its websocket itself
MaxReplies == 3
\* results of the generator that are kept
MaxCalls == 2

(***************************************************************************)
(* Program constants.                                                      *)
(***************************************************************************)
\* asyncio.sleep(0.1) of the engine loop is one time unit
UnitsPerSecond == 10
\* BASE_CONFIG["HEARTBEAT_TIMEOUT"], seconds
HEARTBEAT_TIMEOUT_S == 30

\* BASE_CONFIG["MAX_RETRIES"], the engine's _max_errors
MAX_RETRIES == 3
\* ModbusCache(timeout=5), seconds
CACHE_TIMEOUT_S == 5
\* ModbusCache._cache_cleanup_interval, seconds
CACHE_CLEANUP_INTERVAL_S == 300
\* ModbusSimulator._error_reset_interval, seconds
ERROR_RESET_INTERVAL_S == 60

HEARTBEAT_TIMEOUT == HEARTBEAT_TIMEOUT_S * UnitsPerSecond
CacheTimeout == CACHE_TIMEOUT_S * UnitsPerSecond
CacheCleanupInterval == CACHE_CLEANUP_INTERVAL_S * UnitsPerSecond
ErrorResetInterval == ERROR_RESET_INTERVAL_S * UnitsPerSecond

WS == 1..NumWS
Pools == {"device", "system"}
Checkers == {1, 2}

\* the devices of the run (DEVICES), in the order of the dict; the addresses of a
\* block that are modelled; the four blocks of a slave context
Slaves == {3, 5, 6}
SlaveOrder == <<3, 5, 6>>
Addrs == {0, 1, 50, 51}
Blocks == {"d", "c", "h", "i"}

\* lock holders and the value the absent heartbeat entry is modelled by
Free == <<"free", 0>>
NoEntry == -1

\* None, and the absent key of a dict
NoCache == <<"none">>
NoStatus == <<>>
NoError == <<>>
NoContext == <<>>
NoMsg == <<>>

VARIABLES
    now,             \* time.time()
    steps,           \* clock advances so far (bounded by MaxClockSteps)
    started,         \* startup_event has run
    web_running,     \* shared_state.web_running
    connections,     \* [pool -> ConnectionManager.connections]
    last_heartbeat,  \* [pool -> ConnectionManager._last_heartbeat], NoEntry = no key
    lock,            \* [pool -> holder of ConnectionManager._lock]
    lock_waiters,    \* [pool -> asyncio.Lock._waiters of its lock, oldest first]
    ep,              \* [ws -> position of its endpoint task (routes.py)]
    path,            \* [ws -> the pool of the path it was opened on]
    inbox,           \* [ws -> messages send_text delivered to it, in order]
    bc,              \* [pool -> the broadcast in progress on it]
    produced,        \* [pool -> messages produced for it so far]
    broadcast_queue, \* SystemConnectionManager._broadcast_queue
    broadcast_task,  \* SystemConnectionManager._broadcast_task
    heartbeat_task,  \* WebSocketManager._heartbeat_task
    chk              \* [checker task -> position in _check_heartbeats]

hubVars == <<steps, started, web_running, connections, last_heartbeat, lock,
             lock_waiters,
             ep, path, inbox, bc, produced, broadcast_queue, broadcast_task,
             heartbeat_task, chk>>

VARIABLES
    running,            \* ModbusSimulator.running
    modbus_running,     \* shared_state.modbus_running
    epc,                \* position of the _update_values task
    start_pc,           \* position of ModbusSimulator.start
    todo,               \* the slaves of the current pass of the loop still to update
    current_time,       \* current_time of the current pass
    error_count,        \* ModbusSimulator._error_count
    last_error_reset,   \* last_error_reset of _update_values
    last_updates,       \* last_updates of _update_values
    cache,              \* ModbusCache._data_cache, NoCache = no key
    cached_data,        \* the slave and the result of the last ModbusCache.get
    last_cache_cleanup, \* ModbusCache._last_cache_cleanup
    context,            \* ModbusSimulator.context: [slave -> [block -> [address -> value]]]
    device_status,      \* shared_state._device_status, NoStatus = no key
    last_error,         \* shared_state.last_error with last_error_time
    ticks,              \* passes of the loop so far (bounded by MaxTicks)
    failures,           \* failed device updates so far (bounded by MaxFailures)
    writes,             \* register writes by remote clients so far (bounded by MaxWrites)
    generated,          \* what generate_simulated_data returned to the callers of
                        \* SpecGenerator, newest first (the last MaxCalls results)
    got,                \* the id and the result of the last get_device_status of
                        \* SpecShared
    held,               \* the dict the last get_all_device_status of SpecShared
                        \* returned, as its caller has it now: its entries, and
                        \* the keys whose value is still the object shared_state has
    client,             \* ModbusClientManager: whether _client is connected,
                        \* _connection_attempts, and how the last get_client ended
    slaves              \* ModbusSimulator.slaves: the ids of the device table, in the
                        \* order of the dict

\* the variables of the components that are called on their own, and the device table,
\* which nothing changes after construction
callVars == <<generated, got, held, client, slaves>>

\* the keys of the device table
Devices == {slaves[i] : i \in 1..Len(slaves)}

engVars == <<running, modbus_running, epc, start_pc, todo, current_time, error_count,
             last_error_reset, last_updates, cache, cached_data, last_cache_cleanup, context,
             device_status, last_error, ticks, failures, writes, callVars>>

VARIABLES
    last_other,      \* <<ws, message>>: the last message of a type other than heartbeat
                     \* an endpoint received
    last_control,    \* the last message passed to _handle_control
    device_states,   \* DeviceConnectionManager._device_states, NoStatus = no key
    sent_text        \* [ws -> what its endpoint task passed to websocket.send_text
                     \* (the initial push, the replies of the handlers), in order]

dispVars == <<last_other, last_control, device_states, sent_text>>

vars == <<now, hubVars, dispVars, engVars>>

IdleBc == [pc |-> "idle", msg |-> <<"none", 0>>, todo |-> {}, disconnected |-> {}]
SleepChk == [pc |-> "sleep", pool |-> "device", disconnected |-> {}, pending |-> {},
             ct |-> 0]

\* the tasks that take a pool's lock
EpTask(w) == <<"ep", w>>
BcTask(p) == <<"bc", IF p = "device" THEN 0 ELSE 1>>
ChkTask(c) == <<"chk", c>>

(***************************************************************************)
(* State after construction: ws_manager = WebSocketManager() at import.    *)
(***************************************************************************)
HubInit ==
    /\ now = 0
    /\ steps = 0
    /\ started = FALSE
    /\ web_running = FALSE
    /\ connections = [p \in Pools |-> {}]
    /\ last_heartbeat = [p \in Pools |-> [w \in WS |-> NoEntry]]
    /\ lock = [p \in Pools |-> Free]
    /\ lock_waiters = [p \in Pools |-> <<>>]
    /\ ep = [w \in WS |-> "new"]
    /\ path = [w \in WS |-> "device"]
    /\ inbox = [w \in WS |-> <<>>]
    /\ bc = [p \in Pools |-> IdleBc]
    /\ produced = [p \in Pools |-> 0]
    /\ broadcast_queue = <<>>
    /\ broadcast_task = "none"
    /\ heartbeat_task = "none"
    /\ chk = [c \in Checkers |-> SleepChk]
    /\ last_other = NoMsg
    /\ last_control = NoMsg
    /\ device_states = [s \in Slaves |-> NoStatus]
    /\ sent_text = [w \in WS |-> <<>>]

(***************************************************************************)
(* asyncio.Lock.  acquire() returns without suspending when the lock is    *)
(* free and nobody waits for it; otherwise the task appends itself to      *)
(* _waiters and is resumed, oldest waiter first, once the lock is          *)
(* released.  A task that has not started its operation yet starts it      *)
(* later instead of waiting (connect, the poller's broadcast).             *)
(***************************************************************************)
Waiters(p) == {lock_waiters[p][i] : i \in 1..Len(lock_waiters[p])}

\* variant: a lock that lets a task in while another holds it
AcqBarging(p, t) == lock_waiters[p] = <<>>

\* acquire() by task t succeeds at once
Acq(p, t) == lock[p] = Free /\ lock_waiters[p] = <<>>

\* acquire() by task t on the waiters q: t waits
Enq(q, p, t) == [q EXCEPT ![p] = Append(@, t)]

\* the waiting task t is the one release() wakes up
Woken(p, t) == lock[p] = Free /\ lock_waiters[p] # <<>> /\ Head(lock_waiters[p]) = t

\* the waiters once the woken task has left them
Deq(p) == [lock_waiters EXCEPT ![p] = Tail(@)]

(***************************************************************************)
(* ConnectionManager: the pool operations on values.                       *)
(***************************************************************************)
\* variant: a limit check that lets one connection too many in
PoolFullOffByOne(conns) == Cardinality(conns) > MaxConnections

\* connect: len(self.connections) >= self._max_connections
PoolFull(conns) == Cardinality(conns) >= MaxConnections

\* variant: a connect that accepts the websocket and does not add it to the pool
AddConnectionDropped(conns, w) == conns

\* connect: self.connections.add(websocket)
AddConnection(conns, w) == conns \cup {w}

\* variant: a disconnect that empties the pool when the connection is not in it
RemoveConnectionOrClear(conns, w) == IF w \in conns THEN conns \ {w} ELSE {}

\* disconnect: self.connections.remove(websocket) when present, a warning otherwise
RemoveConnection(conns, w) == IF w \in conns THEN conns \ {w} ELSE conns

\* disconnect: del self._last_heartbeat[websocket] when present
RemoveHeartbeat(hb, w) == [hb EXCEPT ![w] = NoEntry]

\* variant: a scan that also lists the connections whose age is the timeout exactly
TimedOutAtTimeout(conns, hb, t) ==
    {w \in conns : hb[w] = NoEntry \/ t - hb[w] >= HEARTBEAT_TIMEOUT}

\* check_heartbeats: the connections the scan appends to `disconnected`
TimedOut(conns, hb, t) ==
    {w \in conns : hb[w] = NoEntry \/ t - hb[w] > HEARTBEAT_TIMEOUT}

(***************************************************************************)
(* web_monitor.startup_event: ws_manager.start() creates the heartbeat     *)
(* task, start_background_tasks() creates the pollers and a second         *)
(* _check_heartbeats task.  SystemConnectionManager.start is not called.   *)
(***************************************************************************)
Startup ==
    /\ ~started
    /\ started' = TRUE
    /\ web_running' = TRUE
    /\ heartbeat_task' = "running"
    /\ UNCHANGED <<engVars, dispVars, now, lock_waiters, steps, connections, last_heartbeat, lock, ep, path,
                   inbox, bc, produced, broadcast_queue, broadcast_task, chk>>

\* time.time() moves on: to the heartbeat timeout exactly, or just past it
ClockSteps == {HEARTBEAT_TIMEOUT, HEARTBEAT_TIMEOUT + 1}

\* the event loop runs a task that was woken up before that much time passes: time
\* passes while every task sleeps or waits for the network or for a lock that is held
AdvanceClock ==
    /\ steps < MaxClockSteps
    /\ \A p \in Pools : lock[p] = Free => lock_waiters[p] = <<>>
    /\ \E d \in ClockSteps : now' = now + d
    /\ steps' = steps + 1
    /\ UNCHANGED <<engVars, dispVars, started, web_running, connections, last_heartbeat, lock,
                   lock_waiters, ep,
                   path, inbox, bc, produced, broadcast_queue, broadcast_task,
                   heartbeat_task, chk>>

(***************************************************************************)
(* routes.websocket_endpoint / system_websocket_endpoint, one task per     *)
(* websocket: ws_manager.connect, the receive loop, ws_manager.disconnect  *)
(* in the finally clause.                                                  *)
(***************************************************************************)
\* a client opens a websocket on the path of pool p: ConnectionManager.connect up to
\* `await websocket.accept()`; a full pool raises, which ends the endpoint task and
\* releases the lock.  Websockets are interchangeable, so they are opened in the
\* order of their numbers
Connect(w, p) ==
    /\ started
    /\ ep[w] = "new"
    /\ \A v \in WS : v < w => ep[v] # "new"
    /\ Acq(p, EpTask(w))
    /\ path' = [path EXCEPT ![w] = p]
    /\ IF PoolFull(connections[p])
       THEN /\ ep' = [ep EXCEPT ![w] = "rejected"]
            /\ UNCHANGED lock
       ELSE /\ ep' = [ep EXCEPT ![w] = "accept"]
            /\ lock' = [lock EXCEPT ![p] = EpTask(w)]
    /\ UNCHANGED <<engVars, dispVars, now, lock_waiters, steps, started, web_running, connections, last_heartbeat,
                   inbox, bc, produced, broadcast_queue, broadcast_task,
                   heartbeat_task, chk>>

\* ConnectionManager.connect after `await websocket.accept()`
Accept(w) ==
    /\ ep[w] = "accept"
    /\ lock' = [lock EXCEPT ![path[w]] = Free]
    /\ connections' = [connections EXCEPT ![path[w]] = AddConnection(@, w)]
    /\ last_heartbeat' = [last_heartbeat EXCEPT ![path[w]][w] = now]
    /\ ep' = [ep EXCEPT ![w] = "initial"]
    /\ UNCHANGED <<engVars, dispVars, now, lock_waiters, steps, started, web_running, path, inbox, bc, produced,
                   broadcast_queue, broadcast_task, heartbeat_task, chk>>

\* SystemConnectionManager._prepare_system_status (without its timestamp)
SystemStatus ==
    [type |-> "system_status", modbus_running |-> modbus_running,
     web_running |-> web_running]

\* DeviceConnectionManager.connect / SystemConnectionManager.connect: initial_data
\* (without its timestamp)
InitialData(p) ==
    IF p = "device" THEN [type |-> "device_status", devices |-> device_states]
    ELSE SystemStatus

\* DeviceConnectionManager.connect / SystemConnectionManager.connect: the initial
\* push after super().connect(); a failure leaves the endpoint before its try block
InitialSend(w, ok) ==
    /\ ep[w] = "initial"
    /\ IF ok
       THEN /\ inbox' = [inbox EXCEPT ![w] = Append(@, <<"init", 0>>)]
            /\ sent_text' = [sent_text EXCEPT ![w] = Append(@, InitialData(path[w]))]
            /\ ep' = [ep EXCEPT ![w] = "open"]
       ELSE /\ ep' = [ep EXCEPT ![w] = "failed"]
            /\ UNCHANGED <<inbox, sent_text>>
    /\ UNCHANGED <<engVars, last_other, last_control, device_states, now, lock_waiters, steps, started, web_running, connections, last_heartbeat,
                   lock, path, bc, produced, broadcast_queue, broadcast_task,
                   heartbeat_task, chk>>

\* WebSocketManager.update_heartbeat, from `if websocket in system_manager.connections`:
\* the heartbeat table h, the waiters q and the position the task is left at
HbSystemPart(w, h, q) ==
    IF w \in connections["system"]
    THEN IF lock["system"] = Free /\ q["system"] = <<>>
         THEN [h |-> [h EXCEPT !["system"][w] = now], q |-> q, pc |-> "open"]
         ELSE [h |-> h, q |-> Enq(q, "system", EpTask(w)), pc |-> "hb_wait_sys"]
    ELSE [h |-> h, q |-> q, pc |-> "open"]

\* WebSocketManager.update_heartbeat, whole
HbDevicePart(w, h, q) ==
    IF w \in connections["device"]
    THEN IF lock["device"] = Free /\ q["device"] = <<>>
         THEN HbSystemPart(w, [h EXCEPT !["device"][w] = now], q)
         ELSE [h |-> h, q |-> Enq(q, "device", EpTask(w)), pc |-> "hb_wait_dev"]
    ELSE HbSystemPart(w, h, q)

\* the endpoint received {"type": "heartbeat"}
Heartbeat(w) ==
    /\ ep[w] = "open"
    /\ LET r == HbDevicePart(w, last_heartbeat, lock_waiters)
       IN  /\ last_heartbeat' = r.h
           /\ lock_waiters' = r.q
           /\ ep' = [ep EXCEPT ![w] = r.pc]
    /\ UNCHANGED <<engVars, dispVars, now, steps, started, web_running, connections, lock, path, inbox,
                   bc, produced, broadcast_queue, broadcast_task, heartbeat_task, chk>>

\* ConnectionManager.update_heartbeat gets the lock it waited for
HbResume(w) ==
    /\ ep[w] \in {"hb_wait_dev", "hb_wait_sys"}
    /\ LET p == IF ep[w] = "hb_wait_dev" THEN "device" ELSE "system"
           h == [last_heartbeat EXCEPT ![p][w] = now]
           r == IF p = "device" THEN HbSystemPart(w, h, Deq(p))
                ELSE [h |-> h, q |-> Deq(p), pc |-> "open"]
       IN  /\ Woken(p, EpTask(w))
           /\ last_heartbeat' = r.h
           /\ lock_waiters' = r.q
           /\ ep' = [ep EXCEPT ![w] = r.pc]
    /\ UNCHANGED <<engVars, dispVars, now, steps, started, web_running, connections, lock, path, inbox,
                   bc, produced, broadcast_queue, broadcast_task, heartbeat_task, chk>>

\* ConnectionManager.disconnect under the lock, on the tables of pool p
DisconnectLocked(cs, h, p, w) ==
    [c |-> [cs EXCEPT ![p] = RemoveConnection(@, w)],
     h |-> [h EXCEPT ![p] = RemoveHeartbeat(@, w)]]

\* WebSocketManager.disconnect, from `await self.system_manager.disconnect(websocket)`
CloseSystemPart(w, cs, h, q) ==
    IF lock["system"] = Free /\ q["system"] = <<>>
    THEN LET d == DisconnectLocked(cs, h, "system", w)
         IN  [c |-> d.c, h |-> d.h, q |-> q, pc |-> "done"]
    ELSE [c |-> cs, h |-> h, q |-> Enq(q, "system", EpTask(w)), pc |-> "close_sys"]

\* WebSocketManager.disconnect, whole: the device pool first, then the system pool
CloseDevicePart(w, cs, h, q) ==
    IF lock["device"] = Free /\ q["device"] = <<>>
    THEN LET d == DisconnectLocked(cs, h, "device", w)
         IN  CloseSystemPart(w, d.c, d.h, q)
    ELSE [c |-> cs, h |-> h, q |-> Enq(q, "device", EpTask(w)), pc |-> "close_dev"]

\* receive_json raised WebSocketDisconnect: the finally clause of the endpoint
ClientClose(w) ==
    /\ ep[w] = "open"
    /\ LET r == CloseDevicePart(w, connections, last_heartbeat, lock_waiters)
       IN  /\ connections' = r.c
           /\ last_heartbeat' = r.h
           /\ lock_waiters' = r.q
           /\ ep' = [ep EXCEPT ![w] = r.pc]
    /\ UNCHANGED <<engVars, dispVars, now, steps, started, web_running, lock, path, inbox, bc, produced,
                   broadcast_queue, broadcast_task, heartbeat_task, chk>>

\* ConnectionManager.disconnect gets the lock it waited for
CloseResume(w) ==
    /\ ep[w] \in {"close_dev", "close_sys"}
    /\ LET p == IF ep[w] = "close_dev" THEN "device" ELSE "system"
           d == DisconnectLocked(connections, last_heartbeat, p, w)
           r == IF p = "device" THEN CloseSystemPart(w, d.c, d.h, Deq(p))
                ELSE [c |-> d.c, h |-> d.h, q |-> Deq(p), pc |-> "done"]
       IN  /\ Woken(p, EpTask(w))
           /\ connections' = r.c
           /\ last_heartbeat' = r.h
           /\ lock_waiters' = r.q
           /\ ep' = [ep EXCEPT ![w] = r.pc]
    /\ UNCHANGED <<engVars, dispVars, now, steps, started, web_running, lock, path, inbox, bc, produced,
                   broadcast_queue, broadcast_task, heartbeat_task, chk>>

(***************************************************************************)
(* Broadcasts.  DeviceConnectionManager.broadcast and                      *)
(* SystemConnectionManager._broadcast_message have the same body: under    *)
(* the pool's lock, send to every connection, collect the failed ones,     *)
(* then `await self.disconnect(connection)` for each of them, still inside *)
(* `async with self._lock`.  asyncio.Lock is not reentrant: the task that  *)
(* reaches the removal loop waits for the lock it holds.                   *)
(***************************************************************************)
\* variant: a loop that gives up at the first failed send
NextTodoAbort(rest, w, ok) == IF ok THEN rest \ {w} ELSE {}

\* the for loop goes on with the remaining connections after a send, failed or not
NextTodo(rest, w, ok) == rest \ {w}

\* except Exception: disconnected.append(connection)
NextDisconnected(disconnected, w, ok) ==
    IF ok THEN disconnected ELSE disconnected \cup {w}

\* `async with self._lock` entered: the loop over self.connections starts; with no
\* connection both loops are empty and the lock is released at once
BroadcastEnter(p, m) ==
    IF connections[p] = {}
    THEN /\ bc' = [bc EXCEPT ![p] = IdleBc]
         /\ UNCHANGED lock
    ELSE /\ bc' = [bc EXCEPT ![p] = [pc |-> "send", msg |-> m,
                                     todo |-> connections[p], disconnected |-> {}]]
         /\ lock' = [lock EXCEPT ![p] = BcTask(p)]

\* one `await connection.send_text(message)` returns (ok) or raises; after the last
\* one the removal loop starts: with nothing to remove the lock is released, otherwise
\* self.disconnect() waits for the lock, which this task holds
BroadcastSend(p, w, ok) ==
    /\ bc[p].pc = "send"
    /\ w \in bc[p].todo
    /\ inbox' = IF ok THEN [inbox EXCEPT ![w] = Append(@, bc[p].msg)] ELSE inbox
    /\ LET todo2 == NextTodo(bc[p].todo, w, ok)
           disc2 == NextDisconnected(bc[p].disconnected, w, ok)
       IN  IF todo2 # {}
           THEN /\ bc' = [bc EXCEPT ![p].todo = todo2, ![p].disconnected = disc2]
                /\ UNCHANGED <<lock, lock_waiters>>
           ELSE IF disc2 = {}
                THEN /\ bc' = [bc EXCEPT ![p] = IdleBc]
                     /\ lock' = [lock EXCEPT ![p] = Free]
                     /\ UNCHANGED lock_waiters
                ELSE /\ bc' = [bc EXCEPT ![p].pc = "remove", ![p].todo = todo2,
                                         ![p].disconnected = disc2]
                     /\ lock_waiters' = Enq(lock_waiters, p, BcTask(p))
                     /\ UNCHANGED lock
    /\ UNCHANGED <<engVars, dispVars, now, steps, started, web_running, connections, last_heartbeat,
                   ep, path, produced, broadcast_queue, broadcast_task,
                   heartbeat_task, chk>>

DeviceBroadcastSend == \E w \in WS, ok \in BOOLEAN : BroadcastSend("device", w, ok)

SystemBroadcastSend == \E w \in WS, ok \in BOOLEAN : BroadcastSend("system", w, ok)

\* tasks.poll_and_emit_modbus_data: one ws_manager.broadcast(message) of the poller,
\* which pushes while shared_state.modbus_running (its protocol client connects)
DevicePoll ==
    /\ started
    /\ modbus_running
    /\ produced["device"] < MaxMsgs
    /\ bc["device"].pc = "idle"
    /\ Acq("device", BcTask("device"))
    /\ produced' = [produced EXCEPT !["device"] = @ + 1]
    /\ BroadcastEnter("device", <<"dev", produced["device"] + 1>>)
    /\ UNCHANGED <<engVars, dispVars, now, lock_waiters, steps, started, web_running, connections, last_heartbeat,
                   ep, path, inbox, broadcast_queue, broadcast_task,
                   heartbeat_task, chk>>

\* tasks.poll_and_emit_system_status -> broadcast_system_status: queue.put(message)
Enqueue ==
    /\ started
    /\ produced["system"] < MaxMsgs
    /\ produced' = [produced EXCEPT !["system"] = @ + 1]
    /\ broadcast_queue' = Append(broadcast_queue, <<"sys", produced["system"] + 1>>)
    /\ UNCHANGED <<engVars, dispVars, now, lock_waiters, steps, started, web_running, connections, last_heartbeat,
                   lock, ep, path, inbox, bc, broadcast_task, heartbeat_task, chk>>

(***************************************************************************)
(* SystemConnectionManager.start and the queue-drain task it creates.  No  *)
(* code of the repository calls start(): these actions are part of the     *)
(* specification of the pool as a component (SpecSys), not of the          *)
(* application (Spec).                                                     *)
(***************************************************************************)
SysStart ==
    /\ started
    /\ broadcast_task = "none"
    /\ broadcast_task' = "running"
    /\ UNCHANGED <<engVars, dispVars, now, lock_waiters, steps, started, web_running, connections, last_heartbeat,
                   lock, ep, path, inbox, bc, produced, broadcast_queue,
                   heartbeat_task, chk>>

\* variant: a queue that hands out the newest message first
QueueGetNewest(q) == <<q[Len(q)], SubSeq(q, 1, Len(q) - 1)>>

\* asyncio.Queue.get(): <<the message taken, the queue left>>
QueueGet(q) == <<Head(q), Tail(q)>>

\* _process_broadcast_queue: message = await self._broadcast_queue.get(), then
\* _broadcast_message(message) up to its first suspension
DrainGet ==
    /\ broadcast_task = "running"
    /\ bc["system"].pc = "idle"
    /\ broadcast_queue # <<>>
    /\ LET g == QueueGet(broadcast_queue)
       IN  /\ broadcast_queue' = g[2]
           /\ IF Acq("system", BcTask("system"))
              THEN /\ BroadcastEnter("system", g[1])
                   /\ UNCHANGED lock_waiters
              ELSE /\ bc' = [bc EXCEPT !["system"] =
                                [pc |-> "wait_lock", msg |-> g[1],
                                 todo |-> {}, disconnected |-> {}]]
                   /\ lock_waiters' = Enq(lock_waiters, "system", BcTask("system"))
                   /\ UNCHANGED lock
    /\ UNCHANGED <<engVars, dispVars, now, steps, started, web_running, connections, last_heartbeat,
                   ep, path, inbox, produced, broadcast_task, heartbeat_task, chk>>

\* _broadcast_message gets the lock it waited for
DrainResume ==
    /\ bc["system"].pc = "wait_lock"
    /\ Woken("system", BcTask("system"))
    /\ lock_waiters' = Deq("system")
    /\ BroadcastEnter("system", bc["system"].msg)
    /\ UNCHANGED <<engVars, dispVars, now, steps, started, web_running, connections, last_heartbeat,
                   ep, path, inbox, produced, broadcast_queue, broadcast_task,
                   heartbeat_task, chk>>

(***************************************************************************)
(* WebSocketManager._check_heartbeats, run by two tasks (ws_manager.start  *)
(* and start_background_tasks): check the device pool, then the system     *)
(* pool, then sleep.  ConnectionManager.check_heartbeats reads the time,   *)
(* scans under the lock and then calls self.disconnect for each timed-out  *)
(* connection, taking the lock again for each: while nobody else waits     *)
(* for the lock none of this suspends.  The operators give the pool tables *)
(* and the checker's position k at the task's next suspension.             *)
(***************************************************************************)
\* the tables of pool p with every connection of t disconnected
DisconnectAll(cs, h, p, t) ==
    [c |-> [cs EXCEPT ![p] = @ \ t],
     h |-> [h EXCEPT ![p] = [w \in WS |-> IF w \in t THEN NoEntry ELSE @[w]]]]

\* the checker c about to call self.disconnect for the connections t of the list found
\* of pool p: it waits for the lock
CheckWaits(c, cs, h, q, p, found, t) ==
    [c |-> cs, h |-> h, q |-> Enq(q, p, ChkTask(c)),
     k |-> [pc |-> "disc", pool |-> p, disconnected |-> found, pending |-> t, ct |-> 0]]

\* check_heartbeats of the system pool after its scan found the list found, with the
\* connections t still to disconnect
CheckSystem(c, cs, h, q, found, t) ==
    IF t = {} \/ q["system"] = <<>>
    THEN LET d == DisconnectAll(cs, h, "system", t)
         IN  [c |-> d.c, h |-> d.h, q |-> q, k |-> SleepChk]
    ELSE CheckWaits(c, cs, h, q, "system", found, t)

\* check_heartbeats reads the time and takes the lock of pool p, or waits for it
CheckScanWaits(c, cs, h, q, p) ==
    [c |-> cs, h |-> h, q |-> Enq(q, p, ChkTask(c)),
     k |-> [pc |-> "scan_wait", pool |-> p, disconnected |-> {}, pending |-> {},
            ct |-> now]]

\* after the device pool's check: system_manager.check_heartbeats()
CheckSystemCall(c, cs, h, q) ==
    IF lock["system"] = Free /\ q["system"] = <<>>
    THEN LET found == TimedOut(cs["system"], h["system"], now)
         IN  CheckSystem(c, cs, h, q, found, found)
    ELSE CheckScanWaits(c, cs, h, q, "system")

\* check_heartbeats of the device pool after its scan found the list found, with the
\* connections t still to disconnect
CheckDevice(c, cs, h, q, found, t) ==
    IF t = {} \/ q["device"] = <<>>
    THEN LET d == DisconnectAll(cs, h, "device", t)
         IN  CheckSystemCall(c, d.c, d.h, q)
    ELSE CheckWaits(c, cs, h, q, "device", found, t)

CheckApply(c, r) ==
    /\ connections' = r.c
    /\ last_heartbeat' = r.h
    /\ lock_waiters' = r.q
    /\ chk' = [chk EXCEPT ![c] = r.k]
    /\ UNCHANGED <<engVars, dispVars, now, steps, started, web_running, lock, ep, path, inbox, bc,
                   produced, broadcast_queue, broadcast_task, heartbeat_task>>

\* a round of _check_heartbeats starts with device_manager.check_heartbeats(), which
\* gets the device pool's lock at once
CheckBegin(c) ==
    /\ started
    /\ chk[c].pc = "sleep"
    /\ Acq("device", ChkTask(c))
    /\ LET found == TimedOut(connections["device"], last_heartbeat["device"], now)
       IN  CheckApply(c, CheckDevice(c, connections, last_heartbeat, lock_waiters,
                                     found, found))

\* a round of _check_heartbeats starts while the device pool's lock is taken or waited
\* for: the scan waits
CheckBeginWait(c) ==
    /\ started
    /\ chk[c].pc = "sleep"
    /\ ~Acq("device", ChkTask(c))
    /\ CheckApply(c, CheckScanWaits(c, connections, last_heartbeat, lock_waiters,
                                    "device"))

\* the scan gets the lock it waited for; current_time was read before the wait
CheckScanResume(c) ==
    /\ chk[c].pc = "scan_wait"
    /\ Woken(chk[c].pool, ChkTask(c))
    /\ LET p == chk[c].pool
           found == TimedOut(connections[p], last_heartbeat[p], chk[c].ct)
       IN  CheckApply(c,
             IF p = "device"
             THEN CheckDevice(c, connections, last_heartbeat, Deq(p), found, found)
             ELSE CheckSystem(c, connections, last_heartbeat, Deq(p), found, found))

\* `await self.disconnect(websocket)` gets the lock it waited for
CheckDisconnect(c, w) ==
    /\ chk[c].pc = "disc"
    /\ w \in chk[c].pending
    /\ Woken(chk[c].pool, ChkTask(c))
    /\ LET p == chk[c].pool
           d == DisconnectLocked(connections, last_heartbeat, p, w)
       IN  CheckApply(c,
             IF p = "device"
             THEN CheckDevice(c, d.c, d.h, Deq(p), chk[c].disconnected,
                              chk[c].pending \ {w})
             ELSE CheckSystem(c, d.c, d.h, Deq(p), chk[c].disconnected,
                              chk[c].pending \ {w}))

(***************************************************************************)
(* web_monitor.shutdown_event: web_running = False, ws_manager.stop() and   *)
(* modbus_client_manager.close().  WebSocketManager.stop cancels the task  *)
(* that WebSocketManager.start created and awaits it; the cancelled task   *)
(* leaves the lock's waiters if it waited for a lock (asyncio.Lock.acquire *)
(* removes its future) and ends at `except asyncio.CancelledError: break`  *)
(* without suspending again.  stop() calls nothing of the two pools.       *)
(***************************************************************************)
\* the _check_heartbeats task that WebSocketManager.start created (_heartbeat_task);
\* the other one is the task of start_background_tasks
HeartbeatChecker == 1

\* the waiters q without the task t
WithoutWaiter(q, t) == [p \in Pools |-> SelectSeq(q[p], LAMBDA x : x # t)]

Shutdown ==
    /\ started
    /\ heartbeat_task = "running"
    /\ web_running' = FALSE
    /\ heartbeat_task' = "cancelled"
    /\ chk' = [chk EXCEPT ![HeartbeatChecker] = [SleepChk EXCEPT !.pc = "cancelled"]]
    /\ lock_waiters' = WithoutWaiter(lock_waiters, ChkTask(HeartbeatChecker))
    /\ client' = [client EXCEPT !.connected = FALSE]
    /\ UNCHANGED <<now, dispVars, steps, started, connections, last_heartbeat, lock, ep,
                   path, inbox, bc, produced, broadcast_queue, broadcast_task,
                   running, modbus_running, epc, start_pc, todo, current_time, error_count,
                   last_error_reset, last_updates, cache, cached_data, last_cache_cleanup,
                   context, device_status, last_error, ticks, failures, writes, generated,
                   got, held, slaves>>

(***************************************************************************)
(* The simulation engine (src/modbus/modbus_simulator.py).                 *)
(*                                                                         *)
(* The devices of the run: the AC controller (3), the PLC/IO module (5)    *)
(* and the light controller (6) of DEVICES; between them their value sets  *)
(* have all four address spaces.  The blocks of a slave context are        *)
(* modelled at the addresses these devices use.                            *)
(***************************************************************************)

\* ModbusSimulator._update_intervals, in time units
UpdateInterval(s) ==
    CASE s = 3 -> 2 * UnitsPerSecond
      [] s = 5 -> 2
      [] s = 6 -> UnitsPerSecond
      [] OTHER -> UnitsPerSecond

\* random.randint(lo, hi): the draws of one generator call are all lowest (r = 0) or
\* all highest (r = 1)
Draws == {0, 1}
RandInt(lo, hi, r) == IF r = 0 THEN lo ELSE hi

\* variant: a generator that makes up a value for an id that is not in its table
NoGeneratorItem(s) == << <<"HR", 0, s>> >>

\* generate_simulated_data: generators.get(slave_id) is None
NoGenerator(s) == <<>>

\* ModbusDataGenerator.generate_simulated_data: the value set, a list of
\* <<type, address, value>>
Generate(s, r) ==
    CASE s = 1 -> << <<"IR", 0, RandInt(150, 350, r)>>,
                     <<"IR", 1, RandInt(300, 800, r)>>,
                     <<"IR", 2, RandInt(0, 100, r)>> >>
      [] s = 2 -> << <<"IR", 0, RandInt(2200, 2400, r)>>,
                     <<"IR", 1, RandInt(0, 1000, r)>>,
                     <<"IR", 2, RandInt(0, 24000, r)>>,
                     <<"IR", 3, RandInt(0, 10000, r)>>,
                     <<"IR", 4, RandInt(4900, 5100, r)>> >>
      [] s = 3 -> << <<"IR", 0, RandInt(150, 350, r)>>,
                     <<"HR", 50, RandInt(160, 300, r)>>,
                     <<"HR", 51, RandInt(0, 2, r)>>,
                     <<"CO", 0, 0>> >>
      [] s = 4 -> << <<"IR", 0, RandInt(0, 1000, r)>>,
                     <<"IR", 1, RandInt(0, 500, r)>>,
                     <<"IR", 2, RandInt(0, 100, r)>> >>
      [] s = 5 -> << <<"DI", 0, RandInt(0, 1, r)>>,
                     <<"DI", 1, RandInt(0, 1, r)>>,
                     <<"CO", 0, RandInt(0, 1, r)>>,
                     <<"CO", 1, RandInt(0, 1, r)>> >>
      [] s = 6 -> << <<"CO", 0, RandInt(0, 1, r)>>,
                     <<"HR", 0, RandInt(0, 100, r)>>,
                     <<"HR", 1, RandInt(2700, 6500, r)>> >>
      [] s = 7 -> << <<"IR", 0, RandInt(2200, 2400, r)>>,
                     <<"IR", 1, RandInt(0, 1000, r)>>,
                     <<"CO", 0, 0>> >>
      [] OTHER -> NoGenerator(s)

\* the slave ids the generator is called with in SpecGenerator: the keys of its table
\* `generators` and two ids that are not in it
Configured == 1..7
GeneratorIds == Configured \cup {0, 8}

\* ModbusDataGenerator.generate_simulated_data(slave_id) is called and returns
GenerateCall(s, r) ==
    /\ LET all == <<[slave |-> s, data |-> Generate(s, r)]>> \o generated
       IN  generated' = IF Len(all) <= MaxCalls THEN all ELSE SubSeq(all, 1, MaxCalls)
    /\ UNCHANGED <<now, hubVars, dispVars, running, modbus_running, epc, start_pc, todo,
                   current_time, error_count, last_error_reset, last_updates, cache,
                   cached_data, last_cache_cleanup, context, device_status, last_error,
                   ticks, failures, writes, got, held, client, slaves>>

\* pymodbus ModbusSlaveContext.decode: the block a function code is served from
\* (1, 5, 15 coils; 2 discrete inputs; 3, 6, 16, 22, 23 holding registers; 4 input
\* registers)
Decode(fx) ==
    CASE fx \in {1, 5, 15} -> "c"
      [] fx = 2 -> "d"
      [] fx \in {3, 6, 16, 22, 23} -> "h"
      [] fx = 4 -> "i"

\* ModbusSlaveContext.setValues(fx, address, [value]) on one slave context
SetValues(store, fx, address, value) ==
    [store EXCEPT ![Decode(fx)][address] = value]

\* _update_slave_data: the function code the engine passes to setValues for a type
EngineFx(type) ==
    CASE type = "IR" -> 3
      [] type = "HR" -> 4
      [] type = "CO" -> 1
      [] type = "DI" -> 2

\* _update_slave_data: `for data_item in simulated_data: context.setValues(...)`
RECURSIVE WriteItems(_, _)
WriteItems(store, items) ==
    IF items = <<>> THEN store
    ELSE WriteItems(SetValues(store, EngineFx(Head(items)[1]), Head(items)[2],
                              Head(items)[3]),
                    Tail(items))

\* ModbusCache.get at time t: the cached value set, or NoCache for None
CacheGet(c, s, t) ==
    IF c[s] # NoCache /\ t - c[s][2] <= CacheTimeout THEN c[s][1] ELSE NoCache

\* variant: a get that deletes the entry it finds expired
CacheAfterGetEvicting(c, s, t) ==
    [c EXCEPT ![s] = IF @ # NoCache /\ t - @[2] > CacheTimeout THEN NoCache ELSE @]

\* ModbusCache.get at time t: _data_cache afterwards (get reads it only)
CacheAfterGet(c, s, t) == c

\* variant: a set that refreshes the time of an entry and keeps its old value set
CacheSetKeepData(c, s, data, t) ==
    [c EXCEPT ![s] = IF @ = NoCache THEN <<data, t>> ELSE <<@[1], t>>]

\* ModbusCache.set at time t
CacheSet(c, s, data, t) == [c EXCEPT ![s] = <<data, t>>]

\* variant: a cleanup that also deletes the entries whose age is the timeout exactly
CacheCleanupAtTimeout(c, last, t) ==
    IF t - last < CacheCleanupInterval THEN <<c, last>>
    ELSE <<[s \in DOMAIN c |->
              IF c[s] # NoCache /\ t - c[s][2] >= CacheTimeout THEN NoCache ELSE c[s]],
           t>>

\* ModbusCache.cleanup at time t: <<_data_cache, _last_cache_cleanup>> afterwards
CacheCleanup(c, last, t) ==
    IF t - last < CacheCleanupInterval THEN <<c, last>>
    ELSE <<[s \in DOMAIN c |->
              IF c[s] # NoCache /\ t - c[s][2] > CacheTimeout THEN NoCache ELSE c[s]],
           t>>

\* variant: every device is updated in every pass
DueAlways(s, lu, t) == TRUE

\* _update_values: current_time - last_updates[slave_id] >= update_interval
Due(s, lu, t) == t - lu[s] >= UpdateInterval(s)

\* _update_values: the slaves that are due, in the order of self.slaves
RECURSIVE DueFrom(_, _, _)
DueFrom(order, lu, t) ==
    IF order = <<>> THEN <<>>
    ELSE IF Due(Head(order), lu, t)
         THEN <<Head(order)>> \o DueFrom(Tail(order), lu, t)
         ELSE DueFrom(Tail(order), lu, t)

\* the engine after construction with the device table `table`
EngineInitWith(table) ==
    /\ slaves = table
    /\ running = FALSE
    /\ modbus_running = FALSE
    /\ epc = "none"
    /\ start_pc = "none"
    /\ todo = <<>>
    /\ current_time = 0
    /\ error_count = 0
    /\ last_error_reset = 0
    /\ last_updates = [s \in Devices |-> 0]
    /\ cache = [s \in Devices |-> NoCache]
    /\ cached_data = [slave |-> 0, data |-> NoCache]
    /\ last_cache_cleanup = 0
    /\ context = NoContext
    /\ device_status = [s \in Devices |-> NoStatus]
    /\ last_error = NoError
    /\ ticks = 0
    /\ failures = 0
    /\ writes = 0
    /\ generated = <<>>
    /\ got = [slave |-> 0, status |-> NoStatus]
    /\ held = [devices |-> [s \in Slaves |-> NoStatus], shared |-> {}]
    /\ client = [connected |-> FALSE, attempts |-> 0, result |-> "none"]

\* self.slaves = DEVICES
EngineInit == EngineInitWith(SlaveOrder)

\* ModbusSimulator.start up to the first asyncio.sleep(0.1) of _update_values (the
\* first pass of the loop finds nothing due); start() itself is left inside
\* `await StartAsyncTcpServer(...)`, which serves the protocol endpoint
EngineStart ==
    /\ epc = "none"
    /\ running' = TRUE
    /\ modbus_running' = TRUE
    /\ context' = [s \in Devices |-> [b \in Blocks |-> [a \in Addrs |-> 0]]]
    /\ last_error_reset' = now
    /\ last_updates' = [s \in Devices |-> now]
    /\ epc' = "sleep"
    /\ start_pc' = "serving"
    /\ UNCHANGED <<callVars, now, hubVars, dispVars, todo, current_time, error_count, cache,
                   cached_data, last_cache_cleanup, device_status, last_error, ticks, failures,
                   writes>>

\* the time a pass of the loop starts after the one before: the 0.1 s of the sleep, or
\* later when the event loop was busy
TickSteps == {1, 2, UnitsPerSecond, 2 * UnitsPerSecond, CacheTimeout + 1}

\* _update_values: asyncio.sleep(0.1) returns and a pass of the loop starts: the cache
\* cleanup, the reset of the error count, and the list of the slaves that are due
EngineTick(d) ==
    /\ epc = "sleep"
    /\ running
    /\ ticks < MaxTicks
    /\ LET t == now + d
           cl == CacheCleanup(cache, last_cache_cleanup, t)
           reset == t - last_error_reset >= ErrorResetInterval
           due == DueFrom(slaves, last_updates, t)
       IN  /\ now' = t
           /\ current_time' = t
           /\ cache' = cl[1]
           /\ last_cache_cleanup' = cl[2]
           /\ error_count' = IF reset THEN 0 ELSE error_count
           /\ last_error_reset' = IF reset THEN t ELSE last_error_reset
           /\ last_error' = IF reset THEN NoError ELSE last_error
           /\ todo' = due
           /\ epc' = IF due = <<>> THEN "sleep" ELSE "loop"
    /\ ticks' = ticks + 1
    /\ UNCHANGED <<callVars, hubVars, dispVars, running, modbus_running, start_pc, last_updates,
                   context, cached_data, device_status, failures, writes>>

\* variant: a loop that stops only when the count is above _max_errors
FatalAbove(count) == count > MAX_RETRIES

\* _update_slave_data: self._error_count >= self._max_errors
Fatal(count) == count >= MAX_RETRIES

\* variant: a loop that gives up the pass at the first failed update
RemainingAbort(rest, failed, fatal) == IF failed THEN <<>> ELSE Tail(rest)

\* the slaves the for loop of _update_values still goes through after an update: an
\* exception below _max_errors is swallowed by _update_slave_data, the one at
\* _max_errors leaves the loop
Remaining(rest, failed, fatal) == IF fatal THEN <<>> ELSE Tail(rest)

\* variant: a snapshot stamped with the fraction of the second only
StatusFraction(data, t) == [data |-> data, last_update |-> t % UnitsPerSecond]

\* _update_slave_data: the snapshot passed to shared_state.update_device_status
\* (without the name of the device)
Status(data, t) == [data |-> data, last_update |-> t]

\* _update_slave_data for the next slave that is due, with the draw r of the generator;
\* the first f register writes are done, and unless f is the length of the value set
\* the next one raises.  An exception is counted; at _max_errors it is raised again
\* and ends _update_values.
UpdateSlave(r, f) ==
    /\ epc = "loop"
    /\ LET s == Head(todo)
           cached == CacheGet(cache, s, now)
           data == IF cached # NoCache THEN cached ELSE Generate(s, r)
           failed == f < Len(data)
           fatal == failed /\ Fatal(error_count + 1)
       IN  /\ f \in 0..Len(data)
           /\ cached_data' = [slave |-> s, data |-> cached]
           /\ cache' = IF cached # NoCache THEN CacheAfterGet(cache, s, now)
                       ELSE CacheSet(CacheAfterGet(cache, s, now), s, data, now)
           /\ context' = [context EXCEPT ![s] = WriteItems(@, SubSeq(data, 1, f))]
           /\ device_status' =
                  IF failed THEN device_status
                  ELSE [device_status EXCEPT ![s] = Status(data, current_time)]
           /\ error_count' = IF failed THEN error_count + 1 ELSE error_count
           /\ failures' = IF failed THEN failures + 1 ELSE failures
           /\ last_error' = IF fatal THEN <<"Error updating data", now>>
                            ELSE IF failed THEN <<"Error updating slave", now>>
                            ELSE last_error
           /\ last_updates' = IF fatal THEN last_updates
                              ELSE [last_updates EXCEPT ![s] = current_time]
           /\ running' = IF fatal THEN FALSE ELSE running
           /\ todo' = Remaining(todo, failed, fatal)
           /\ epc' = IF fatal THEN "stopped"
                     ELSE IF Remaining(todo, failed, fatal) = <<>> THEN "sleep" ELSE "loop"
    /\ UNCHANGED <<callVars, now, hubVars, dispVars, modbus_running, start_pc, current_time,
                   last_error_reset, last_cache_cleanup, ticks, writes>>

\* the updates of SpecEngine: at most MaxFailures of them fail
EngineUpdate ==
    \E r \in Draws, f \in 0..4 : UpdateSlave(r, f) /\ failures' <= MaxFailures

\* the updates of SpecErrors: an update succeeds, or fails at its first or at its last
\* register write; at most MaxErrors of them fail
ErrorsUpdate ==
    \E f \in {0, 2, 3, 4} : UpdateSlave(0, f) /\ failures' <= MaxErrors

\* StartAsyncTcpServer raises: the except clause of ModbusSimulator.start calls
\* stop(), which cancels the update task, and raises to the caller of start()
ServerFails ==
    /\ start_pc = "serving"
    /\ epc = "sleep"
    /\ start_pc' = "failed"
    /\ running' = FALSE
    /\ modbus_running' = FALSE
    /\ epc' = "cancelled"
    /\ last_error' = <<"Error starting Modbus simulator", now>>
    /\ UNCHANGED <<callVars, now, hubVars, dispVars, todo, current_time, error_count,
                   last_error_reset, last_updates, cache, cached_data,
                   last_cache_cleanup, context, device_status, ticks, failures, writes>>

\* variant: a task that can be cancelled between two device updates of a pass too
SuspendedOrInPass(pc) == pc \in {"sleep", "loop"}

\* the positions at which the _update_values task is suspended, so that another task
\* runs and a cancellation reaches it: its asyncio.sleep calls.  Its awaits on the
\* lock of the cache return without suspending, since no other task takes that lock,
\* and _update_slave_data has no other await.
Suspended(pc) == pc = "sleep"

\* ModbusSimulator.stop(), called by another task of the event loop (Application.stop)
\* while start() serves: the flags are cleared and the update task is cancelled at the
\* await it is suspended in; a task that has ended already stays as it is
EngineStop ==
    /\ start_pc = "serving"
    /\ Suspended(epc) \/ epc = "stopped"
    /\ running' = FALSE
    /\ modbus_running' = FALSE
    /\ epc' = IF epc = "stopped" THEN "stopped" ELSE "cancelled"
    /\ UNCHANGED <<callVars, now, hubVars, dispVars, start_pc, todo, current_time,
                   error_count, last_error_reset, last_updates, cache, cached_data,
                   last_cache_cleanup, context, device_status, last_error, ticks,
                   failures, writes>>

\* the time between two passes of the loop around the reset interval of the error
\* count
ErrorSteps == {2, ErrorResetInterval - 2, ErrorResetInterval}

\* a remote protocol client writes one coil (function code 5) or one holding register
\* (function code 6): the pymodbus server stores the value in the slave context.  The
\* server runs on the engine's event loop, so this happens while _update_values sleeps
\* or after it has ended (stop() does not close the server).
WriteFx == {5, 6}
WriteValue(fx) == IF fx = 5 THEN 1 ELSE 80

ExternalWrite(s, fx, a) ==
    /\ epc \in {"sleep", "stopped", "cancelled"}
    /\ writes < MaxWrites
    /\ writes' = writes + 1
    /\ context' = [context EXCEPT ![s] = SetValues(@, fx, a, WriteValue(fx))]
    /\ UNCHANGED <<callVars, now, hubVars, dispVars, running, modbus_running, epc, start_pc, todo, current_time,
                   error_count, last_error_reset, last_updates, cache, cached_data,
                   last_cache_cleanup, device_status, last_error, ticks, failures>>

\* _handle_write: the type of the data items a register type stands for
WriteType(register_type) ==
    CASE register_type = 1 -> "CO"
      [] register_type = 4 -> "HR"
      [] OTHER -> "none"

\* _handle_write: the first data item of the type at the address gets the value
RECURSIVE SetItem(_, _, _, _)
SetItem(data, type, address, value) ==
    IF data = <<>> THEN <<>>
    ELSE IF Head(data)[1] = type /\ Head(data)[2] = address
         THEN << <<type, address, value>> >> \o Tail(data)
         ELSE <<Head(data)>> \o SetItem(Tail(data), type, address, value)

\* the list ModbusCache holds for slave s is the list object of the slave's snapshot:
\* _update_slave_data publishes the list it got from or put into the cache, and the
\* cache holds another list only after an update that generated one and then failed
\* (in a later pass than the one of the snapshot)
CacheHoldsList(s) ==
    /\ device_status[s] # NoStatus
    /\ cache[s] # NoCache
    /\ cache[s][2] <= device_status[s].last_update

\* _device_states holds for slave s the dict object shared_state holds: it was
\* mirrored after the slave's last update
MirrorHoldsDict(s) ==
    /\ device_status[s] # NoStatus
    /\ device_states[s] # NoStatus
    /\ device_states[s].last_update = device_status[s].last_update

\* ModbusSimulator._handle_write(slave_id, register_type, address, value), called
\* while _update_values sleeps (no code of the repository calls it).  It changes a
\* data item of the snapshot in place, so every holder of the list sees the change,
\* and publishes the dict it read.
HandleWrite(s, register_type, address, value) ==
    /\ epc = "sleep"
    /\ writes < MaxWrites
    /\ writes' = writes + 1
    /\ IF device_status[s] # NoStatus
       THEN LET data == SetItem(device_status[s].data, WriteType(register_type),
                                address, value)
            IN  /\ device_status' = [device_status EXCEPT ![s].data = data]
                /\ cache' = IF CacheHoldsList(s) THEN [cache EXCEPT ![s][1] = data]
                            ELSE cache
                /\ device_states' =
                       IF MirrorHoldsDict(s) THEN [device_states EXCEPT ![s].data = data]
                       ELSE device_states
       ELSE UNCHANGED <<device_status, cache, device_states>>
    /\ UNCHANGED <<callVars, now, hubVars, last_other, last_control, sent_text, running,
                   modbus_running, epc, start_pc, todo, current_time, error_count,
                   last_error_reset, last_updates, cached_data, last_cache_cleanup,
                   context, last_error, ticks, failures>>

(***************************************************************************)
(* ModbusClientManager (src/web/modbus_client.py), the protocol client of  *)
(* the poller and of _handle_control.                                      *)
(***************************************************************************)
\* variant: a manager that allows one attempt more
ExhaustedAbove(attempts) == attempts > MAX_RETRIES

\* get_client: self._connection_attempts >= MAX_RETRIES
Exhausted(attempts) == attempts >= MAX_RETRIES

\* get_client(): with a connected client it returns it; with none, after MAX_RETRIES
\* failed attempts it raises at once; otherwise it makes a client and awaits its
\* connect(), which succeeds (ok: the engine's server is up) or raises.  (connect() is
\* taken to raise when it fails, as the code expects; self._client.connected is taken
\* to change only by connect(), by the loss of the connection and by close().)
GetClient(ok) ==
    /\ ok => start_pc = "serving"
    /\ IF client.connected
       THEN /\ client' = [client EXCEPT !.result = "client"]
            /\ UNCHANGED last_error
       ELSE IF Exhausted(client.attempts)
       THEN /\ client' = [client EXCEPT !.result = "refused"]
            /\ UNCHANGED last_error
       ELSE IF ok
       THEN /\ client' = [connected |-> TRUE, attempts |-> 0, result |-> "client"]
            /\ last_error' = NoError
       ELSE /\ client' = [client EXCEPT !.attempts = @ + 1, !.result = "failed"]
            /\ last_error' = <<"Failed to connect to Modbus server", now>>
    /\ UNCHANGED <<now, hubVars, dispVars, running, modbus_running, epc, start_pc, todo,
                   current_time, error_count, last_error_reset, last_updates, cache,
                   cached_data, last_cache_cleanup, context, device_status, ticks,
                   failures, writes, generated, got, held, slaves>>

\* the connection of the client to the server is lost: _client.connected is false
ClientDrop ==
    /\ client.connected
    /\ client' = [client EXCEPT !.connected = FALSE]
    /\ UNCHANGED <<now, hubVars, dispVars, running, modbus_running, epc, start_pc, todo,
                   current_time, error_count, last_error_reset, last_updates, cache,
                   cached_data, last_cache_cleanup, context, device_status, last_error,
                   ticks, failures, writes, generated, got, held, slaves>>

(***************************************************************************)
(* SharedState as a component (src/core/config.py): the device entries of  *)
(* shared_state, a caller that puts and reads snapshots, and what the      *)
(* caller does with the dict get_all_device_status gave it.  A value of    *)
(* the dict is the object shared_state holds until either side replaces    *)
(* its entry.                                                              *)
(***************************************************************************)
SharedSlaves == {5, 6}

\* the snapshots the caller puts
Snapshots(s) == {Status(Generate(s, r), t) : r \in Draws, t \in {1, 2}}

\* the variables the operations of SharedState and of its caller leave alone
sharedFrame == <<now, hubVars, dispVars, running, modbus_running, epc, start_pc, todo,
                 current_time, error_count, last_error_reset, last_updates, cache,
                 cached_data, last_cache_cleanup, context, last_error, ticks, failures,
                 writes, generated, client, slaves>>

\* SharedState.update_device_status(device_id, status)
UpdateDeviceStatus(id, status) ==
    /\ device_status' = [device_status EXCEPT ![id] = status]
    /\ held' = [held EXCEPT !.shared = @ \ {id}]
    /\ UNCHANGED <<sharedFrame, got>>

\* SharedState.get_device_status(device_id)
GetDeviceStatus(id) ==
    /\ got' = [slave |-> id, status |-> device_status[id]]
    /\ UNCHANGED <<sharedFrame, device_status, held>>

\* SharedState.get_all_device_status(): self._device_status.copy(), a new dict with
\* the same values
GetAllDeviceStatus ==
    /\ held' = [devices |-> device_status,
                shared |-> {s \in Slaves : device_status[s] # NoStatus}]
    /\ UNCHANGED <<sharedFrame, device_status, got>>

\* the caller assigns to a key of the dict it was given (`d[id] = status`), or deletes
\* the key (status = NoStatus)
CallerSetsEntry(id, status) ==
    /\ held.devices[id] # status
    /\ held' = [devices |-> [held.devices EXCEPT ![id] = status],
                shared |-> held.shared \ {id}]
    /\ UNCHANGED <<sharedFrame, device_status, got>>

\* the caller assigns to a field of a value of the dict it was given
\* (`d[id]['last_update'] = t`)
CallerSetsField(id, t) ==
    /\ held.devices[id] # NoStatus
    /\ held' = [held EXCEPT !.devices[id].last_update = t]
    /\ device_status' = IF id \in held.shared
                        THEN [device_status EXCEPT ![id].last_update = t]
                        ELSE device_status
    /\ UNCHANGED <<sharedFrame, got>>

(***************************************************************************)
(* ModbusCache as a component: its three operations called at any time,    *)
(* for the devices CacheSlaves.                                            *)
(***************************************************************************)
CacheSlaves == {5, 6}

\* ModbusCache.get(slave_id)
ModbusCacheGet(s) ==
    /\ cached_data' = [slave |-> s, data |-> CacheGet(cache, s, now)]
    /\ cache' = CacheAfterGet(cache, s, now)
    /\ UNCHANGED <<callVars, now, hubVars, dispVars, running, modbus_running, epc, start_pc, todo, current_time,
                   error_count, last_error_reset, last_updates,
                   last_cache_cleanup, context, device_status, last_error, ticks,
                   failures, writes>>

\* ModbusCache.set(slave_id, data) with a value set of the generator
ModbusCacheSet(s, r) ==
    /\ cache' = CacheSet(cache, s, Generate(s, r), now)
    /\ UNCHANGED <<callVars, now, hubVars, dispVars, running, modbus_running, epc, start_pc, todo, current_time,
                   error_count, last_error_reset, last_updates, cached_data,
                   last_cache_cleanup, context, device_status, last_error, ticks,
                   failures, writes>>

\* ModbusCache.cleanup()
ModbusCacheCleanup ==
    /\ LET cl == CacheCleanup(cache, last_cache_cleanup, now)
       IN  /\ cache' = cl[1]
           /\ last_cache_cleanup' = cl[2]
    /\ UNCHANGED <<callVars, now, hubVars, dispVars, running, modbus_running, epc, start_pc, todo, current_time,
                   error_count, last_error_reset, last_updates, cached_data,
                   context, device_status, last_error, ticks, failures, writes>>

\* the time between two calls: around the cache timeout and the cleanup interval
CacheSteps ==
    {1, CacheTimeout - 1, CacheTimeout, CacheTimeout + 1,
     CacheCleanupInterval - CacheTimeout, CacheCleanupInterval}

CacheWait ==
    /\ steps < MaxCacheSteps
    /\ steps' = steps + 1
    /\ \E d \in CacheSteps : now' = now + d
    /\ UNCHANGED <<engVars, dispVars, started, web_running, connections, last_heartbeat,
                   lock, lock_waiters, ep, path, inbox, bc, produced, broadcast_queue,
                   broadcast_task, heartbeat_task, chk>>

(***************************************************************************)
(* Messages from subscribers.  A message is the JSON object the endpoint   *)
(* reads.  A field is <<x>> when the object has the key with value x, and   *)
(* Absent when it has not (dict.get returns None).                         *)
(***************************************************************************)
Absent == <<>>

Msg(type, d, rt, a, v) ==
    [type |-> type, deviceId |-> d, registerType |-> rt, address |-> a, value |-> v]

\* {"type": "request_data"}
RequestData == Msg("request_data", Absent, Absent, Absent, Absent)

\* {"type": "control", "deviceId": "6", "registerType": "HR", "address": 0, "value": 80}
ControlHR0 == Msg("control", <<"6">>, <<"HR">>, <<0>>, <<80>>)

\* the control messages of the run: all four fields present, with address 0 or 1 and
\* value 0 or 80; one field missing; no field at all
ControlMsgs ==
    {Msg("control", <<"6">>, rt, a, v) :
        rt \in {<<"HR">>, <<"CO">>}, a \in {<<0>>, <<1>>}, v \in {<<0>>, <<80>>}}
    \cup {Msg("control", Absent, <<"HR">>, <<1>>, <<80>>),
          Msg("control", <<"6">>, Absent, <<1>>, <<80>>),
          Msg("control", <<"6">>, <<"HR">>, Absent, <<80>>),
          Msg("control", <<"6">>, <<"HR">>, <<1>>, Absent),
          Msg("control", Absent, Absent, Absent, Absent)}

\* the truth value Python gives a string field and a number field in `all([...])`
TruthyStr(x) == x # Absent /\ x[1] # ""
TruthyNum(x) == x # Absent /\ x[1] # 0

\* int(device_id)
DeviceNo(d) ==
    CASE d = "3" -> 3
      [] d = "5" -> 5
      [] d = "6" -> 6

\* routes.websocket_endpoint / system_websocket_endpoint: receive_json returned a
\* message whose type is not "heartbeat"; the loop goes on to the next receive_json
ReceiveOther(w, m) ==
    /\ ep[w] = "open"
    /\ m.type # "heartbeat"
    /\ last_other' = <<w, m>>
    /\ UNCHANGED <<now, hubVars, engVars, last_control, device_states, sent_text>>

\* _handle_control: `all([device_id, register_type, address, value is not None])`
ControlAccepted(m) ==
    /\ TruthyStr(m.deviceId)
    /\ TruthyStr(m.registerType)
    /\ TruthyNum(m.address)
    /\ m.value # Absent

\* _handle_control: the function code of the write the protocol client issues, 0 when
\* it issues none (write_coil is function code 5, write_register 6)
ControlFx(m) ==
    IF ~ControlAccepted(m) THEN 0
    ELSE IF m.registerType[1] = "CO" THEN 5
    ELSE IF m.registerType[1] = "HR" THEN 6
    ELSE 0

\* _handle_control: bool(value) for a coil, int(value) for a register
ControlValue(m) ==
    IF m.registerType[1] = "CO" THEN (IF m.value[1] = 0 THEN 0 ELSE 1) ELSE m.value[1]

\* WebSocketManager._handle_control(websocket, message), with the protocol client
\* connected to the engine's server: the write reaches the slave context of
\* int(device_id); then the device's entry of shared_state is mirrored into
\* _device_states under the device pool's lock
HandleControl(w, m) ==
    /\ ep[w] = "open"
    /\ epc = "sleep"
    /\ m \in ControlMsgs
    /\ last_control' = m
    /\ IF ControlFx(m) # 0
       THEN /\ writes < MaxWrites
            /\ writes' = writes + 1
            /\ context' = [context EXCEPT
                              ![DeviceNo(m.deviceId[1])] =
                                  SetValues(@, ControlFx(m), m.address[1],
                                            ControlValue(m))]
       ELSE UNCHANGED <<writes, context>>
    /\ IF ControlAccepted(m) /\ device_status[DeviceNo(m.deviceId[1])] # NoStatus
       THEN /\ Acq("device", EpTask(w))
            /\ device_states' = [device_states EXCEPT
                                    ![DeviceNo(m.deviceId[1])] =
                                        device_status[DeviceNo(m.deviceId[1])]]
       ELSE UNCHANGED device_states
    /\ UNCHANGED <<callVars, now, hubVars, last_other, sent_text, running, modbus_running, epc,
                   start_pc, todo, current_time, error_count, last_error_reset,
                   last_updates, cache, cached_data, last_cache_cleanup, device_status,
                   last_error, ticks, failures>>

\* {"type": "request_data"} without a deviceId, with an empty one, and for the devices
\* 3 and 5
DataRequests ==
    {Msg("request_data", d, Absent, Absent, Absent) :
        d \in {Absent, <<"">>, <<"3">>, <<"5">>}}

\* _handle_data_request: the device part of the reply.  A dict of devices is a function
\* on Slaves here, on both sides of `{str(k): v for k, v in all_devices.items()}`.
DeviceReply(m) ==
    IF TruthyStr(m.deviceId)
    THEN IF device_status[DeviceNo(m.deviceId[1])] # NoStatus
         THEN << [type |-> "device_update", device_id |-> m.deviceId[1],
                  data |-> device_status[DeviceNo(m.deviceId[1])]] >>
         ELSE <<>>
    ELSE << [type |-> "device_status", devices |-> device_status] >>

\* variant: the system status is sent before the device part
RepliesSystemFirst(m) == <<SystemStatus>> \o DeviceReply(m)

\* _handle_data_request: what it passes to websocket.send_text, in order
Replies(m) == DeviceReply(m) \o <<SystemStatus>>

\* _handle_data_request: _device_states after its calls of update_device_state
Mirrored(m) ==
    [s \in Slaves |->
        IF /\ device_status[s] # NoStatus
           /\ TruthyStr(m.deviceId) => s = DeviceNo(m.deviceId[1])
        THEN device_status[s]
        ELSE device_states[s]]

\* WebSocketManager._handle_data_request(websocket, message), with the device pool's
\* lock free when update_device_state takes it
HandleDataRequest(w, m) ==
    /\ ep[w] = "open"
    /\ m \in DataRequests
    /\ Len(sent_text[w]) < MaxReplies
    /\ Mirrored(m) # device_states => Acq("device", EpTask(w))
    /\ device_states' = Mirrored(m)
    /\ sent_text' = [sent_text EXCEPT ![w] = @ \o Replies(m)]
    /\ UNCHANGED <<now, hubVars, engVars, last_other, last_control>>

(***************************************************************************)
(* Specifications.                                                         *)
(*   Spec     the application as main.py and web_monitor.py wire it, its   *)
(*            connection and message traffic with the clock standing still *)
(*            (no heartbeat times out, the checker tasks remove nothing);  *)
(*   SpecSys  the system pool with its delivery task started;              *)
(*   SpecLive connections, heartbeats, the clock and the two               *)
(*            _check_heartbeats tasks, each round of which finds the       *)
(*            device pool's lock free;                                     *)
(*   SpecCheck the device pool with its broadcasts, heartbeats, the clock  *)
(*            and the _check_heartbeats tasks, which wait for the lock     *)
(*            like every other task;                                       *)
(*   SpecEngine the simulation engine and the remote protocol clients;     *)
(*   SpecErrors the engine with up to MaxErrors failing updates, passes of *)
(*            the loop around the reset interval of the error count, and a *)
(*            protocol server that can fail;                               *)
(*   SpecCache the cache of the engine as a component;                     *)
(*   SpecDispatch the endpoints reading the three kinds of messages;       *)
(*   SpecHandlers _handle_control called with the control messages, as the *)
(*            table WebSocketManager._message_handlers has it (no code of  *)
(*            the repository looks a handler up in the table);             *)
(*   SpecStatus the engine publishing snapshots, the remote protocol       *)
(*            clients, _handle_write and a subscriber of the device pool   *)
(*            whose control messages reach _handle_control;                *)
(*   SpecErrorState the writers of shared_state.last_error: the engine     *)
(*            with failing updates and the protocol client manager;        *)
(*   SpecStop  the engine, the remote protocol clients and a caller of     *)
(*            ModbusSimulator.stop;                                        *)
(*   SpecShared the device entries of shared_state as a component;         *)
(*   SpecGenerator the generator called with any slave id;                 *)
(*   SpecClient the protocol client manager called at any time, with the   *)
(*            loss of its connection, shutdown_event and the engine;       *)
(*   SpecShutdown the hub with subscribers of the system pool, both        *)
(*            checker tasks, the delivery task of the system pool and      *)
(*            shutdown_event;                                              *)
(*   SpecUnlisted the engine with a device table that has a device the     *)
(*            generator has no class for;                                  *)
(*   SpecRequests the engine publishing snapshots and two subscribers of   *)
(*            the device pool whose request_data messages reach            *)
(*            _handle_data_request.                                        *)
(***************************************************************************)
Init == HubInit /\ EngineInit

Endpoint ==
    \E w \in WS :
        \/ \E p \in Pools : Connect(w, p)
        \/ Accept(w)
        \/ \E ok \in BOOLEAN : InitialSend(w, ok)
        \/ Heartbeat(w)
        \/ HbResume(w)
        \/ ClientClose(w)
        \/ CloseResume(w)

Checker ==
    \E c \in Checkers :
        \/ CheckBegin(c)
        \/ CheckScanResume(c)
        \/ \E w \in WS : CheckDisconnect(c, w)

Next ==
    \/ Startup
    \/ EngineStart
    \/ Endpoint
    \/ DevicePoll
    \/ DeviceBroadcastSend
    \/ Enqueue

Spec == Init /\ [][Next]_vars

NextSys ==
    \/ Startup
    \/ Endpoint
    \/ Enqueue
    \/ SysStart
    \/ DrainGet
    \/ DrainResume
    \/ SystemBroadcastSend

SpecSys == Init /\ [][NextSys]_vars

NextLive ==
    \/ Startup
    \/ AdvanceClock
    \/ Endpoint
    \/ Checker

SpecLive == Init /\ [][NextLive]_vars

NextCheck ==
    \/ Startup
    \/ EngineStart
    \/ AdvanceClock
    \/ \E w \in WS :
          \/ Connect(w, "device")
          \/ Accept(w)
          \/ InitialSend(w, TRUE)
          \/ Heartbeat(w)
          \/ HbResume(w)
    \/ DevicePoll
    \/ DeviceBroadcastSend
    \/ Checker
    \/ \E c \in Checkers : CheckBeginWait(c)

SpecCheck == Init /\ [][NextCheck]_vars

NextEngine ==
    \/ EngineStart
    \/ \E d \in TickSteps : EngineTick(d)
    \/ EngineUpdate
    \/ \E s \in Slaves, fx \in WriteFx, a \in {0} : ExternalWrite(s, fx, a)

SpecEngine == Init /\ [][NextEngine]_vars

NextErrors ==
    \/ EngineStart
    \/ \E d \in ErrorSteps : EngineTick(d)
    \/ ErrorsUpdate
    \/ ServerFails

SpecErrors == Init /\ [][NextErrors]_vars

NextCache ==
    \/ \E s \in CacheSlaves : ModbusCacheGet(s)
    \/ \E s \in CacheSlaves, r \in Draws : ModbusCacheSet(s, r)
    \/ ModbusCacheCleanup
    \/ CacheWait

SpecCache == Init /\ [][NextCache]_vars

NextDispatch ==
    \/ Startup
    \/ EngineStart
    \/ Endpoint
    \/ \E w \in WS, m \in {RequestData, ControlHR0} : ReceiveOther(w, m)

SpecDispatch == Init /\ [][NextDispatch]_vars

NextHandlers ==
    \/ Startup
    \/ EngineStart
    \/ \E w \in WS :
          \/ \E p \in Pools : Connect(w, p)
          \/ Accept(w)
          \/ \E ok \in BOOLEAN : InitialSend(w, ok)
          \/ ClientClose(w)
          \/ CloseResume(w)
    \/ \E w \in WS, m \in ControlMsgs : HandleControl(w, m)

SpecHandlers == Init /\ [][NextHandlers]_vars

\* the websockets of SpecStatus
StatusWS == {1}

\* the time between two passes of the loop in SpecStatus
StatusSteps == {2, UnitsPerSecond - 2}

\* the updates of SpecStatus: an update succeeds or fails at its last register write;
\* at most MaxFailures of them fail
StatusUpdate ==
    \E r \in Draws, f \in {3, 4} : UpdateSlave(r, f) /\ failures' <= MaxFailures

NextStatus ==
    \/ Startup
    \/ EngineStart
    \/ \E d \in StatusSteps : EngineTick(d)
    \/ StatusUpdate
    \/ \E s \in Slaves, fx \in WriteFx : ExternalWrite(s, fx, 0)
    \/ \E s \in Slaves, rt \in {1, 4} : HandleWrite(s, rt, 0, IF rt = 1 THEN 1 ELSE 80)
    \/ \E w \in StatusWS :
          \/ Connect(w, "device")
          \/ Accept(w)
          \/ InitialSend(w, TRUE)
          \/ \E m \in {ControlHR0} : HandleControl(w, m)

SpecStatus == Init /\ [][NextStatus]_vars

NextErrorState ==
    \/ EngineStart
    \/ \E d \in ErrorSteps : EngineTick(d)
    \/ ErrorsUpdate
    \/ \E ok \in BOOLEAN : GetClient(ok)

SpecErrorState == Init /\ [][NextErrorState]_vars

NextClient ==
    \/ Startup
    \/ EngineStart
    \/ \E d \in ErrorSteps : EngineTick(d)
    \/ ErrorsUpdate
    \/ \E ok \in BOOLEAN : GetClient(ok)
    \/ ClientDrop
    \/ Shutdown

SpecClient == Init /\ [][NextClient]_vars

NextStop ==
    \/ EngineStart
    \/ \E d \in StatusSteps : EngineTick(d)
    \/ StatusUpdate
    \/ \E s \in Slaves, fx \in WriteFx : ExternalWrite(s, fx, 0)
    \/ EngineStop

SpecStop == Init /\ [][NextStop]_vars

NextShared ==
    \E id \in SharedSlaves :
        \/ \E status \in Snapshots(id) : UpdateDeviceStatus(id, status)
        \/ GetDeviceStatus(id)
        \/ GetAllDeviceStatus
        \/ \E status \in Snapshots(id) \cup {NoStatus} : CallerSetsEntry(id, status)
        \/ CallerSetsField(id, 0)

SpecShared == Init /\ [][NextShared]_vars

\* the device table of SpecUnlisted: the modelled devices and one that is not in the
\* table of the generator
UnlistedTable == SlaveOrder \o <<8>>
InitUnlisted == HubInit /\ EngineInitWith(UnlistedTable)

\* the times between two passes of the loop in SpecUnlisted
UnlistedSteps == {2, UnitsPerSecond}

\* the updates of SpecUnlisted: an update succeeds or fails at its first or at its last
\* register write; at most MaxFailures of them fail
UnlistedUpdate ==
    \E r \in Draws, f \in {0, 3, 4} : UpdateSlave(r, f) /\ failures' <= MaxFailures

NextUnlisted ==
    \/ EngineStart
    \/ \E d \in UnlistedSteps : EngineTick(d)
    \/ UnlistedUpdate
    \/ \E s \in Devices \ Configured, fx \in WriteFx : ExternalWrite(s, fx, 0)

SpecUnlisted == InitUnlisted /\ [][NextUnlisted]_vars

\* the websockets of SpecShutdown
ShutdownWS == {1, 2}

NextShutdown ==
    \/ Startup
    \/ AdvanceClock
    \/ \E w \in ShutdownWS :
          \/ Connect(w, "system")
          \/ Accept(w)
          \/ InitialSend(w, TRUE)
    \/ Checker
    \/ Enqueue
    \/ SysStart
    \/ DrainGet
    \/ DrainResume
    \/ SystemBroadcastSend
    \/ Shutdown

SpecShutdown == Init /\ [][NextShutdown]_vars

NextGenerator == \E s \in GeneratorIds, r \in Draws : GenerateCall(s, r)

SpecGenerator == Init /\ [][NextGenerator]_vars

\* the websockets of SpecRequests
RequestWS == {1, 2}

\* the updates of SpecRequests: none fails, and the generator draws its lowest values
RequestsUpdate == \E f \in {3, 4} : UpdateSlave(0, f) /\ failures' = failures

NextRequests ==
    \/ Startup
    \/ EngineStart
    \/ \E d \in StatusSteps : EngineTick(d)
    \/ RequestsUpdate
    \/ \E w \in RequestWS :
          \/ Connect(w, "device")
          \/ Accept(w)
          \/ InitialSend(w, TRUE)
          \/ \E m \in DataRequests : HandleDataRequest(w, m)

SpecRequests == Init /\ [][NextRequests]_vars

\* Spec with every task that can run eventually running
SpecFair == Spec /\ WF_vars(Next)

(***************************************************************************)
(* Properties of the subscription hub.                                     *)
(***************************************************************************)
\* how many times message m is in the sequence q
Count(q, m) == Cardinality({i \in 1..Len(q) : q[i] = m})

\* the numbers of the messages of kind k in q, in the order of q
RECURSIVE Numbers(_, _)
Numbers(q, k) ==
    IF q = <<>> THEN <<>>
    ELSE IF Head(q)[1] = k THEN <<Head(q)[2]>> \o Numbers(Tail(q), k)
         ELSE Numbers(Tail(q), k)

Increasing(q) == \A i, j \in 1..Len(q) : i < j => q[i] < q[j]

\* C1: in each pool the number of connections never exceeds max_connections, and a
\* connect attempted on a full pool is rejected and leaves the membership and the
\* heartbeat table of both pools as they were.
C1_PoolNeverExceedsLimit ==
    /\ [](\A p \in Pools : Cardinality(connections[p]) <= MaxConnections)
    /\ [][\A w \in WS :
            ep[w] = "new" /\ ep'[w] # "new" =>
                /\ Cardinality(connections[path'[w]]) >= MaxConnections
                     => ep'[w] = "rejected"
                /\ ep'[w] = "rejected"
                     => /\ connections' = connections
                        /\ last_heartbeat' = last_heartbeat]_vars

\* C1, its case: a connection was rejected by a pool that holds max_connections
C1_Witness ==
    \E w \in WS :
        /\ ep[w] = "rejected"
        /\ Cardinality(connections[path[w]]) = MaxConnections

\* C2: a broadcast in which a send failed returns, with the failed connections removed
\* and the pool's lock free: it is never left waiting for the lock while it is itself
\* the holder of that lock.
C2_FailedBroadcastReturns ==
    \A p \in Pools : ~(bc[p].pc = "remove" /\ lock[p] = BcTask(p))

\* C3: in a broadcast every member whose send succeeded has the message exactly once,
\* whatever happened to the sends to the other members, and once the sends are over
\* every member but the failed ones has it.
C3_DeliveryDespiteFailures ==
    \A p \in Pools :
        bc[p].pc \in {"send", "remove"} =>
            /\ bc[p].todo \cup bc[p].disconnected \subseteq connections[p]
            /\ \A w \in connections[p] :
                   Count(inbox[w], bc[p].msg) =
                       IF w \in bc[p].todo \cup bc[p].disconnected THEN 0 ELSE 1
            /\ bc[p].pc = "remove" => bc[p].todo = {}

\* C3, its case: the sends of a broadcast are over, one failed and another member got
\* the message
C3_Witness ==
    \E p \in Pools :
        /\ bc[p].pc = "remove"
        /\ bc[p].disconnected # {}
        /\ \E w \in connections[p] \ bc[p].disconnected :
               Count(inbox[w], bc[p].msg) = 1

\* C4: every system-status message put on the queue after the hub was started is
\* eventually taken from the queue by the delivery task.
C4_QueueEventuallyDrained ==
    [](started /\ broadcast_queue # <<>> => <>(broadcast_queue = <<>>))

\* C5: every connection receives the system-status messages in the order they were
\* put on the queue (the messages are numbered in that order).
C5_EnqueueOrder ==
    \A w \in WS : Increasing(Numbers(inbox[w], "sys"))

\* C5, its case: a connection received two system-status messages
C5_Witness ==
    \E w \in WS : Len(Numbers(inbox[w], "sys")) >= 2

\* a step of the checker task c
CheckStep(c) ==
    \/ CheckBegin(c)
    \/ CheckBeginWait(c)
    \/ CheckScanResume(c)
    \/ \E w \in WS : CheckDisconnect(c, w)

\* the check of pool p by the checker c is under way, the task waiting for the lock
CheckOpen(c, p) == chk[c].pc \in {"scan_wait", "disc"} /\ chk[c].pool = p

\* the connections the scan of pool p found timed out, in the check of pool p that the
\* checker c has under way or that its next step makes: the list it kept, or the scan
\* at the time the check read
ScanList(c, p) ==
    IF CheckOpen(c, p)
    THEN IF chk[c].pc = "disc" THEN chk[c].disconnected
         ELSE TimedOut(connections[p], last_heartbeat[p], chk[c].ct)
    ELSE IF p = "device" /\ CheckOpen(c, "system") THEN {}
         ELSE TimedOut(connections[p], last_heartbeat[p], now)

\* C11: when a check of a pool ends, every connection its scan found timed out is out
\* of the pool and out of the heartbeat table; and a connection that was removed from a
\* pool is never in it again, whoever else disconnects it or checks the pool.
C11_TimedOutRemovedOnce ==
    [][/\ \A c \in Checkers, p \in Pools :
            /\ CheckStep(c)
            /\ ~CheckOpen(c, p)'
            /\ p = "system" => chk'[c].pc = "sleep"
            => \A w \in ScanList(c, p) :
                   /\ w \notin connections'[p]
                   /\ last_heartbeat'[p][w] = NoEntry
       /\ \A p \in Pools, w \in WS :
            w \notin connections[p] /\ ep[w] \notin {"new", "accept"}
            => w \notin connections'[p]]_vars

\* C12: a disconnect changes nothing for the other connections, in the pool the
\* connection is in and in the pool it is not in (WebSocketManager.disconnect calls
\* both), whether it was removed before or not; a pool that did not hold the
\* connection keeps its members; and a second disconnect after it changes nothing.
C12_DisconnectIdempotent ==
    [][/\ \A w \in WS :
            ClientClose(w) \/ CloseResume(w)
            => \A p \in Pools :
                 /\ \A v \in WS \ {w} :
                      /\ v \in connections'[p] <=> v \in connections[p]
                      /\ last_heartbeat'[p][v] = last_heartbeat[p][v]
                 /\ w \notin connections[p] => connections'[p] = connections[p]
                 /\ w \notin connections'[p]
                      => LET d == DisconnectLocked(connections', last_heartbeat', p, w)
                         IN  /\ d.c = connections'
                             /\ \A v \in WS \ {w} : d.h[p][v] = last_heartbeat'[p][v]
       /\ \A c \in Checkers, w \in WS :
            CheckDisconnect(c, w) /\ w \notin connections[chk[c].pool]
            => \A p \in Pools, v \in WS \ (chk[c].pending \ {w}) :
                 /\ v \in connections'[p] <=> v \in connections[p]
                 /\ v # w => last_heartbeat'[p][v] = last_heartbeat[p][v]]_vars

\* C12, its case: a websocket of the device path was closed, so that it was
\* disconnected from the system pool it never was in, while that pool has a connection
\* with a recorded heartbeat
C12_Witness ==
    \E w \in WS : \E v \in WS \ {w} :
        /\ ep[w] = "done"
        /\ path[w] = "device"
        /\ v \in connections["system"]
        /\ last_heartbeat["system"][v] # NoEntry

\* C28: a websocket is in at most one pool, the one of the path it was opened on; it
\* is in that pool as soon as the pool has accepted it, nothing but the acceptance
\* puts it in a pool, and once it has left the pool it is in none.
C28_MemberOfOnePool ==
    [][\A w \in WS :
          /\ \A p \in Pools : w \in connections'[p] => p = path'[w]
          /\ Accept(w) => w \in connections'[path[w]]
          /\ \A p \in Pools :
                w \in connections'[p] /\ w \notin connections[p] => Accept(w)]_vars

\* C28, its case: a websocket is in the device pool, another in the system pool, and a
\* third, whose endpoint is still open, has been removed from its pool after a
\* heartbeat timeout
C28_Witness ==
    \E w \in WS :
        \E v \in WS \ {w} :
            \E u \in WS \ {w, v} :
                /\ w \in connections["device"]
                /\ v \in connections["system"]
                /\ ep[u] = "open"
                /\ \A p \in Pools : u \notin connections[p]

(***************************************************************************)
(* Properties of the simulation engine.                                    *)
(***************************************************************************)
\* the standard Modbus function code that reads an address space: coils 1, discrete
\* inputs 2, holding registers 3, input registers 4
StandardFx(type) ==
    CASE type = "CO" -> 1
      [] type = "DI" -> 2
      [] type = "HR" -> 3
      [] type = "IR" -> 4

\* the block of a slave context the protocol endpoint serves an address space from
BlockOf(type) == Decode(StandardFx(type))

\* a slave context with every triple of a value set stored in the block of its space
RECURSIVE StoreInOwnSpace(_, _)
StoreInOwnSpace(store, items) ==
    IF items = <<>> THEN store
    ELSE StoreInOwnSpace(
             [store EXCEPT ![BlockOf(Head(items)[1])][Head(items)[2]] = Head(items)[3]],
             Tail(items))

\* the blocks of slave s hold every triple of the value set published for s
Published(ctx, status, s) ==
    status[s] # NoStatus =>
        \A i \in 1..Len(status[s].data) :
            LET item == status[s].data[i]
            IN  ctx[s][BlockOf(item[1])][item[2]] = item[3]

\* a pass of the update loop ends with this step
TickEnds ==
    /\ epc' \in {"sleep", "stopped"}
    /\ epc = "loop" \/ ticks' # ticks

\* C6: at the end of every pass of the update loop, for every device with a published
\* snapshot, each triple of the published value set is the value the device's register
\* bank holds at that space and address - also when an update of the pass failed
\* part-way through its writes.
C6_BankEqualsPublished ==
    [][TickEnds => \A s \in Slaves : Published(context', device_status', s)]_vars

\* C7: an update of a device stores every triple of its value set in the block of the
\* triple's own address space, and changes no other cell of the device's blocks.
C7_StoredInOwnSpace ==
    [][\A s \in Slaves :
          device_status'[s] # device_status[s] =>
              context'[s] = StoreInOwnSpace(context[s], device_status'[s].data)]_vars

\* C30: a write of a remote client to a coil or a holding register is stored; a pass of
\* the update loop changes no register before its updates, and an update of a device
\* changes no coil and no holding register of the device other than those whose space
\* and address are those of a triple of the device's value set.
C30_EngineWritesValueSetCellsOnly ==
    [][/\ \A s \in Slaves, fx \in WriteFx, a \in Addrs :
             ExternalWrite(s, fx, a) => context'[s][Decode(fx)][a] = WriteValue(fx)
       /\ ticks' # ticks => context' = context
       /\ \A r \in Draws, f \in 0..4 :
             UpdateSlave(r, f) =>
                 LET s == Head(todo)
                     data == Generate(s, r)
                 IN  \A b \in {"c", "h"}, a \in Addrs :
                         (\A i \in 1..Len(data) :
                              <<BlockOf(data[i][1]), data[i][2]>> # <<b, a>>)
                             => context'[s][b][a] = context[s][b][a]]_vars

\* C31: a value set does not change once it is in the cache or in a published snapshot:
\* as long as the cache keeps the entry of a put (same time of the put), and as long as
\* shared_state keeps the snapshot of an update (same last_update), its triples are
\* the same after every step, the handling of a write included.
C31_ValueSetImmutable ==
    [][\A s \in Slaves :
          /\ (/\ cache[s] # NoCache
              /\ cache'[s] # NoCache
              /\ cache'[s][2] = cache[s][2]) => cache'[s][1] = cache[s][1]
          /\ (/\ device_status[s] # NoStatus
              /\ device_status'[s] # NoStatus
              /\ device_status'[s].last_update = device_status[s].last_update)
                 => device_status'[s].data = device_status[s].data]_vars


(***************************************************************************)
(* Properties of the cache.  _data_cache[d] is the most recent put for d   *)
(* with its time, unless a cleanup deleted it.                             *)
(***************************************************************************)
\* the age at time t of the entry the cache c has for the device s
Age(c, s, t) == t - c[s][2]

\* C13: get(d) returns a value set exactly when the cache has an entry for d that was
\* put less than the cache timeout ago, and then it returns the value set of that
\* entry; an entry whose age is exactly the timeout is reported absent.
C13_GetWithinTtl ==
    [][\A s \in CacheSlaves :
          ModbusCacheGet(s)
          => /\ (cached_data'.data # NoCache)
                  <=> (cache[s] # NoCache /\ Age(cache, s, now) < CacheTimeout)
             /\ cached_data'.data # NoCache => cached_data'.data = cache[s][1]]_vars

\* C14: a cleanup deletes an entry only if its age is above the cache timeout; called
\* less than the cleanup interval after the last effective cleanup (or the creation of
\* the cache) it changes nothing; otherwise it is effective: it deletes every entry
\* older than the timeout, keeps every other entry, and is the last effective cleanup
\* from then on.
C14_CleanupOncePerInterval ==
    [][ModbusCacheCleanup
       => LET effective == now - last_cache_cleanup >= CacheCleanupInterval
              older(s) == cache[s] # NoCache /\ Age(cache, s, now) > CacheTimeout
          IN  /\ \A s \in Slaves : cache'[s] # cache[s] => older(s) /\ cache'[s] = NoCache
              /\ ~effective => cache' = cache /\ last_cache_cleanup' = last_cache_cleanup
              /\ effective => /\ \A s \in Slaves : older(s) => cache'[s] = NoCache
                              /\ \A s \in Slaves : ~older(s) => cache'[s] = cache[s]
                              /\ last_cache_cleanup' = now]_vars

\* C14, its case: an effective cleanup has just deleted the entry of a device that a
\* get had returned before, and kept the entry of another device whose age is the
\* timeout exactly
C14_Witness ==
    /\ last_cache_cleanup = now
    /\ now >= CacheCleanupInterval
    /\ cached_data.data # NoCache
    /\ cache[cached_data.slave] = NoCache
    /\ \E s \in CacheSlaves : cache[s] # NoCache /\ Age(cache, s, now) = CacheTimeout

\* C32: a get changes no entry of the cache, whether the entry it asks for is present,
\* absent or older than the timeout, and leaves the time of the last cleanup; an entry
\* changes only when a set replaces it or when an effective cleanup deletes it, being
\* older than the timeout.
C32_GetLeavesCache ==
    [][\A s \in CacheSlaves :
          /\ ModbusCacheGet(s)
                => cache' = cache /\ last_cache_cleanup' = last_cache_cleanup
          /\ cache'[s] # cache[s]
                => \/ \E r \in Draws : ModbusCacheSet(s, r)
                   \/ /\ ModbusCacheCleanup
                      /\ last_cache_cleanup' = now
                      /\ Age(cache, s, now) > CacheTimeout
                      /\ cache'[s] = NoCache]_vars

\* C32, its case: a get has reported absent for a device whose entry is older than the
\* timeout, and the entry is still in the cache; the entry of another device is within
\* the timeout
C32_Witness ==
    \E s \in CacheSlaves :
        /\ cached_data = [slave |-> s, data |-> NoCache]
        /\ cache[s] # NoCache
        /\ Age(cache, s, now) > CacheTimeout
        /\ \E u \in CacheSlaves \ {s} :
              cache[u] # NoCache /\ Age(cache, u, now) < CacheTimeout

\* an update of the device that is due next
UpdateStep == \E r \in Draws, f \in 0..4 : UpdateSlave(r, f)

\* C15: in an update of a due device the generator is called only when the cache
\* reported absent, and its value set is then put; when the cache returned a value set
\* nothing is put.  A snapshot the update publishes carries the value set of the
\* device's cache entry: the one put last, until that entry has expired.
C15_SnapshotsFromCache ==
    [][UpdateStep
       => LET s == Head(todo)
          IN  /\ cached_data'.slave = s
              /\ cached_data'.data # NoCache
                   => cache' = cache /\ cached_data'.data = cache[s][1]
              /\ cached_data'.data = NoCache
                   => \E r \in Draws : cache' = [cache EXCEPT ![s] = <<Generate(s, r), now>>]
              /\ device_status'[s] # device_status[s]
                   => /\ cache'[s] # NoCache
                      /\ device_status'[s].data = cache'[s][1]]_vars

\* C15, its case: the snapshot of a device was published in this pass of the loop from
\* a value set the cache returned, which was put in an earlier pass
C15_Witness ==
    \E s \in Slaves :
        /\ device_status[s] # NoStatus
        /\ device_status[s].last_update = current_time
        /\ cached_data.slave = s
        /\ cached_data.data # NoCache
        /\ cache[s][2] < current_time
        /\ device_status[s].data = cache[s][1]

(***************************************************************************)
(* Properties of the error handling of the update loop.                    *)
(***************************************************************************)
\* a pass of the loop starts
TickStep == \E d \in ErrorSteps : EngineTick(d)

\* the pass that starts finds the reset window expired
WindowExpires == current_time' - last_error_reset >= ErrorResetInterval

\* the update loop has stopped for good
LoopDead == epc = "stopped" /\ ~running

\* C16: every failed update is counted; the count goes back only at a window expiry,
\* which sets it to 0 without stopping the loop; the loop stops exactly on the failure
\* that brings the count to max_errors, and from then on it is not running and nothing
\* is updated, written or published any more.
C16_FatalAtMaxErrors ==
    [][/\ ErrorsUpdate /\ device_status' = device_status
            => error_count' = error_count + 1
       /\ ErrorsUpdate /\ device_status' # device_status
            => error_count' = error_count /\ running'
       /\ error_count' < error_count
            => TickStep /\ WindowExpires /\ error_count' = 0
       /\ TickStep /\ WindowExpires => error_count' = 0 /\ running' /\ epc' # "stopped"
       /\ ErrorsUpdate => (LoopDead' <=> error_count' = MAX_RETRIES)
       /\ LoopDead' => error_count' = MAX_RETRIES
       /\ LoopDead => /\ LoopDead'
                      /\ UNCHANGED <<context, device_status, cache, last_updates>>]_vars

\* C16, its case: max_errors - 1 failures were counted and reset by a window expiry, and
\* max_errors failures after it have stopped the loop
C16_Witness ==
    /\ LoopDead
    /\ failures = 2 * MAX_RETRIES - 1
    /\ error_count = MAX_RETRIES

\* C17: the count of errors is reset only when a full reset window has passed since the
\* most recent counted error (shared_state.last_error_time is the time of that error).
C17_ResetAfterQuietWindow ==
    [][TickStep /\ error_count > 0 /\ error_count' = 0
       => /\ last_error # NoError
          /\ current_time' - last_error[2] >= ErrorResetInterval]_vars

\* C27: shared_state.last_error holds the error recorded last: a failed update and a
\* failed connection attempt put their message and the current time there; and an
\* error that is there is cleared only at a moment when a full reset window has passed
\* since it was recorded.
C27_ErrorSlotClearedByWindowOnly ==
    [][/\ failures' > failures \/ client'.attempts > client.attempts
            => last_error' # NoError /\ last_error'[2] = now'
       /\ last_error # NoError /\ last_error' = NoError
            => now' - last_error[2] >= ErrorResetInterval]_vars

\* C18: a failed update below max_errors does not end the pass: the loop goes on with
\* the next due device, an update that does not fail itself writes its value set and
\* publishes its snapshot with the time of the pass, and when the pass is over no
\* device is left due.
C18_FailureIsolated ==
    [][/\ ErrorsUpdate /\ running' => todo' = Tail(todo)
       /\ ErrorsUpdate /\ error_count' = error_count
            => LET s == Head(todo)
               IN  /\ device_status'[s] # NoStatus
                   /\ device_status'[s].last_update = current_time
                   /\ device_status'[s].data = cache'[s][1]
                   /\ context'[s] = WriteItems(context[s], device_status'[s].data)
       /\ epc' = "sleep" /\ running'
            => \A s \in Slaves :
                   current_time' - last_updates'[s] < UpdateInterval(s)]_vars

\* C18, its case: a pass is over in which the update of one device failed and a device
\* after it in the loop was published
C18_Witness ==
    /\ epc = "sleep"
    /\ running
    /\ current_time > 0
    /\ \E s1 \in Slaves, s2 \in Slaves :
          /\ s1 < s2
          /\ last_updates[s1] = current_time
          /\ device_status[s1] = NoStatus
          /\ device_status[s2] # NoStatus
          /\ device_status[s2].last_update = current_time

\* C19: once the update loop has stopped on max_errors, the start operation that
\* launched it has ended with a failure: it is not left serving the protocol endpoint,
\* with shared_state.modbus_running set, while the update loop is dead.
C19_FatalReachesCaller ==
    LoopDead => start_pc = "failed" /\ ~modbus_running

\* C38: shared_state.modbus_running is false whenever there is no update loop: before
\* the engine is started, after stop() has cancelled the loop, and after the loop has
\* ended at the maximum of errors.
C38_FlagFalseWithoutLoop ==
    epc \in {"none", "stopped", "cancelled"} => ~modbus_running

\* C39: _connection_attempts never exceeds MAX_RETRIES and goes back to 0 only in a
\* get_client whose attempt to connect succeeds; once it is MAX_RETRIES with no
\* connected client, nothing changes the manager any more: every get_client raises
\* without an attempt (no client, no error recorded, the counter as it is).
C39_AttemptsBounded ==
    [][/\ client'.attempts <= MAX_RETRIES
       /\ client'.attempts = 0 /\ client.attempts # 0
             => GetClient(TRUE) /\ ~client.connected /\ client'.connected
       /\ client.attempts = MAX_RETRIES /\ ~client.connected
             => /\ client' \in {client, [client EXCEPT !.result = "refused"]}
                /\ \A ok \in BOOLEAN :
                      GetClient(ok)
                          => client'.result = "refused" /\ last_error' = last_error]_vars

\* C39, its case: with the engine's server up, a get_client has been refused after
\* MAX_RETRIES failed attempts, and the error of the last attempt has been cleared by
\* the engine since
C39_Witness ==
    /\ client.attempts = MAX_RETRIES
    /\ ~client.connected
    /\ client.result = "refused"
    /\ start_pc = "serving"
    /\ last_error = NoError

(***************************************************************************)
(* Properties of stopping the engine.                                      *)
(***************************************************************************)
\* C26: stop() finds no pass of the update loop in progress (no device update is begun
\* and no device that was due in the pass is left out), and once it has cancelled the
\* loop the engine publishes no snapshot, puts nothing in its cache and writes no
\* register: a register changes only by the write of a remote client.
C26_StopBetweenPasses ==
    [][/\ EngineStop => todo = <<>> /\ epc \in {"sleep", "stopped"}
       /\ epc = "cancelled" =>
             /\ epc' = "cancelled"
             /\ device_status' = device_status
             /\ cache' = cache
             /\ last_updates' = last_updates
             /\ context' # context => writes' = writes + 1]_vars

\* the loop was cancelled after it had published a snapshot, and a remote client has
\* written a register
C26_Witness ==
    /\ epc = "cancelled"
    /\ ~running
    /\ ~modbus_running
    /\ writes > 0
    /\ \E s \in Slaves : device_status[s] # NoStatus

(***************************************************************************)
(* Properties of the pacing of the updates.                                *)
(***************************************************************************)
\* C20: the last_update of a device's new snapshot is at least the device's update
\* interval minus one tick (100 ms) after the last_update of the snapshot it replaces;
\* and a device that is updated in a pass has not been updated in that pass before,
\* nor is it updated in it again.
C20_UpdatesPaced ==
    [][EngineUpdate
       => LET s == Head(todo)
              tick == UnitsPerSecond \div 10
          IN  /\ last_updates[s] < current_time
              /\ \A i \in 1..Len(todo') : todo'[i] # s
              /\ device_status[s] # NoStatus /\ device_status'[s] # device_status[s]
                   => device_status'[s].last_update - device_status[s].last_update
                        >= UpdateInterval(s) - tick]_vars

\* C20, its case: with no update failed so far, a device has its second snapshot,
\* exactly its update interval after the first one
C20_Witness ==
    \E s \in Slaves :
        /\ failures = 0
        /\ device_status[s] # NoStatus
        /\ cache[s] # NoCache
        /\ cache[s][2] < device_status[s].last_update
        /\ device_status[s].last_update - cache[s][2] = UpdateInterval(s)

(***************************************************************************)
(* Properties of the generator.                                            *)
(***************************************************************************)
\* the (type, address) pairs of a value set, in order
Shape(data) == [i \in 1..Len(data) |-> <<data[i][1], data[i][2]>>]

\* the values a value set has for a type and an address
ValuesAt(data, type, address) ==
    {data[i][3] : i \in {j \in 1..Len(data) : Shape(data)[j] = <<type, address>>}}

\* C24: two calls of the generator for a configured device return the same sequence of
\* (type, address) pairs; every value is a 16-bit unsigned number and lies in the
\* range documented for its quantity: temperature (devices 1 and 3, input register 0)
\* 150..350, voltage (devices 2 and 7, input register 0) 2200..2400, power (device 2,
\* input register 2) 0..2400, CO2 (device 4, input register 0) 0..1000; and the value
\* set of device 2 is 5 input-register entries.
C24_GeneratorShapeAndRanges ==
    \A i \in 1..Len(generated) :
        LET s == generated[i].slave
            data == generated[i].data
        IN  s \in Configured =>
              /\ \A j \in 1..Len(generated) :
                    generated[j].slave = s => Shape(generated[j].data) = Shape(data)
              /\ \A k \in 1..Len(data) : data[k][3] \in 0..65535
              /\ s \in {1, 3} => ValuesAt(data, "IR", 0) \subseteq 150..350
              /\ s \in {2, 7} => ValuesAt(data, "IR", 0) \subseteq 2200..2400
              /\ s = 2 => ValuesAt(data, "IR", 2) \subseteq 0..2400
              /\ s = 4 => ValuesAt(data, "IR", 0) \subseteq 0..1000
              /\ s = 2 => Shape(data) = [a \in 1..5 |-> <<"IR", a - 1>>]

\* C29: the generator returns the empty value set for an id that is not in its table;
\* an update of a device of the engine's table that the generator has no class for
\* writes no register, counts no error and sets no error, and publishes a snapshot
\* with empty data stamped with the time of the pass.
C29_UnlistedDeviceUpdate ==
    [][/\ \A s \in GeneratorIds \ Configured, r \in Draws : Generate(s, r) = <<>>
       /\ \A r \in Draws, f \in 0..4 :
             UpdateSlave(r, f) /\ Head(todo) \notin Configured
                 => /\ context' = context
                    /\ error_count' = error_count
                    /\ failures' = failures
                    /\ last_error' = last_error
                    /\ device_status'[Head(todo)] = Status(<<>>, current_time)]_vars

\* C29, its case: the device without a generator class has a snapshot, published while
\* the cache held its empty value set, after updates of other devices have failed and
\* a remote client has written a register of it
C29_Witness ==
    \E s \in Devices \ Configured :
        /\ device_status[s] # NoStatus
        /\ cached_data = [slave |-> s, data |-> <<>>]
        /\ failures > 0
        /\ context[s]["h"][0] = WriteValue(6)

\* C34: in each pool the connections with a recorded last heartbeat are the members of
\* the pool, whatever the interleaving of connects, disconnects, heartbeats and
\* heartbeat checks.
C34_TrackedAreMembers ==
    \A p \in Pools : \A w \in WS :
        last_heartbeat[p][w] # NoEntry <=> w \in connections[p]

\* the last heartbeat recorded for w in pool p is older than the timeout
Lapsed(p, w) ==
    /\ last_heartbeat[p][w] # NoEntry
    /\ now - last_heartbeat[p][w] > HEARTBEAT_TIMEOUT

\* C35: a heartbeat check lists a connection for disconnection only if its recorded
\* heartbeat is older than the timeout when the scan is made, and removes from a pool
\* only connections a scan has listed: a connection whose recorded heartbeat is never
\* older than the timeout is never removed by a check, however heartbeats, scans and
\* disconnects interleave.
C35_HeartbeatingNeverRemoved ==
    [][\A c \in Checkers :
          CheckStep(c)
          => /\ \A p \in Pools : \A w \in connections[p] \ connections'[p] :
                    \/ chk[c].pc = "disc" /\ chk[c].pool = p /\ w \in chk[c].pending
                    \/ Lapsed(p, w)
             /\ chk'[c].pc = "disc"
                   => \A w \in chk'[c].disconnected :
                          \/ /\ chk[c].pc = "disc"
                             /\ chk[c].pool = chk'[c].pool
                             /\ w \in chk[c].disconnected
                          \/ Lapsed(chk'[c].pool, w)]_vars

\* C35, its case: a check has listed timed-out connections of a pool and waits to
\* disconnect them, while a member of the pool whose recorded heartbeat is within the
\* timeout is not on the list
C35_Witness ==
    \E c \in Checkers : \E w \in WS :
        /\ chk[c].pc = "disc"
        /\ chk[c].pending # {}
        /\ w \in connections[chk[c].pool] \ chk[c].disconnected
        /\ last_heartbeat[chk[c].pool][w] # NoEntry
        /\ now - last_heartbeat[chk[c].pool][w] <= HEARTBEAT_TIMEOUT
        /\ now > HEARTBEAT_TIMEOUT

\* C36: a broadcast that has taken the lock of its pool starts with the members of the
\* pool at that moment as the connections to send to; until its sends are over the
\* members and the recorded heartbeats of the pool do not change, and each step of it
\* is a send to one of the connections still to do, which is a member; the sends are
\* over only when none is left.
C36_BroadcastSeesFixedPool ==
    [][\A p \in Pools :
          /\ bc[p].pc # "send" /\ bc'[p].pc = "send"
                => bc'[p].todo = connections[p] /\ connections'[p] = connections[p]
          /\ bc[p].pc = "send"
                => /\ connections'[p] = connections[p]
                   /\ last_heartbeat'[p] = last_heartbeat[p]
                   /\ bc[p].todo \subseteq connections[p]
                   /\ bc'[p] # bc[p]
                         => \E w \in bc[p].todo, ok \in BOOLEAN :
                                /\ BroadcastSend(p, w, ok)
                                /\ bc'[p].pc = "send" => bc'[p].todo = bc[p].todo \ {w}
                                /\ bc'[p].pc # "send" => bc[p].todo = {w}]_vars

\* C36, its case: a broadcast of the device pool has sent to one member and has another
\* still to do, while the endpoint of a member waits for the pool's lock with a
\* heartbeat or with its disconnect
C36_Witness ==
    /\ bc["device"].pc = "send"
    /\ bc["device"].todo # {}
    /\ bc["device"].todo # connections["device"]
    /\ \E w \in connections["device"] : ep[w] \in {"hb_wait_dev", "close_dev"}

\* C37: when the initial push of a connect fails, the connection is out of its pool and
\* has no recorded heartbeat when the failure leaves connect, so the pool has a slot
\* for another connection.
C37_FailedPushNotAMember ==
    [][\A w \in WS :
          InitialSend(w, FALSE)
          => /\ w \notin connections'[path[w]]
             /\ last_heartbeat'[path[w]][w] = NoEntry]_vars

\* C33: once WebSocketManager.stop has completed, no round of _check_heartbeats starts
\* or goes on, and the delivery task of the system pool takes no message from the
\* queue and sends none.
C33_StopCancelsLoops ==
    [][heartbeat_task = "cancelled"
          => /\ ~Checker
             /\ ~DrainGet
             /\ ~DrainResume
             /\ ~SystemBroadcastSend]_vars

(***************************************************************************)
(* Properties of the published snapshots.                                  *)
(***************************************************************************)
\* C21: the last_update of a device's snapshot in shared_state never decreases, and a
\* device that has a snapshot keeps having one, whatever the engine, the remote
\* clients, _handle_write and the control handler do.
C21_LastUpdateMonotone ==
    [][\A s \in Slaves :
          device_status[s] # NoStatus =>
              /\ device_status'[s] # NoStatus
              /\ device_status'[s].last_update >= device_status[s].last_update]_vars

\* a device was updated twice, and since then _handle_write changed its snapshot and
\* a control message was handled
C21_Witness ==
    \E s \in Slaves :
        /\ device_status[s] # NoStatus
        /\ device_status[s].last_update > UpdateInterval(s)
        /\ device_status[s].data \notin {Generate(s, r) : r \in Draws}
        /\ last_control # NoMsg

\* C22: when the device pool has accepted a connection, the message pushed to it first
\* is a device_status whose devices map is the content of shared_state's device
\* entries at that moment.
C22_InitialPushIsCurrentStatus ==
    [][\A w \in WS :
          (ep[w] = "initial" /\ ep'[w] = "open" /\ path[w] = "device") =>
              /\ sent_text[w] = <<>>
              /\ Len(sent_text'[w]) = 1
              /\ sent_text'[w][1].type = "device_status"
              /\ sent_text'[w][1].devices = device_status]_vars

\* C23: _handle_data_request sends to the requesting connection only: the snapshot of
\* the device the request names (when shared_state has one) or else a device_status
\* with all the entries of shared_state, and after it the system status; the
\* snapshots it sends are then in _device_states too, and nothing else is changed
\* there.
C23_DataRequestReplies ==
    [][\A w \in WS, m \in DataRequests :
          HandleDataRequest(w, m) =>
              LET new == SubSeq(sent_text'[w], Len(sent_text[w]) + 1,
                                Len(sent_text'[w]))
                  named == m.deviceId # Absent /\ m.deviceId[1] # ""
              IN  /\ \A v \in WS \ {w} : sent_text'[v] = sent_text[v]
                  /\ inbox' = inbox
                  /\ new # <<>>
                  /\ new[Len(new)] =
                         [type |-> "system_status",
                          modbus_running |-> modbus_running,
                          web_running |-> web_running]
                  /\ IF named /\ device_status[DeviceNo(m.deviceId[1])] = NoStatus
                     THEN /\ Len(new) = 1
                          /\ device_states' = device_states
                     ELSE IF named
                     THEN /\ Len(new) = 2
                          /\ new[1].type = "device_update"
                          /\ new[1].device_id = m.deviceId[1]
                          /\ new[1].data = device_status[DeviceNo(m.deviceId[1])]
                          /\ \A s \in Slaves :
                                device_states'[s] =
                                    IF s = DeviceNo(m.deviceId[1]) THEN new[1].data
                                    ELSE device_states[s]
                     ELSE /\ Len(new) = 2
                          /\ new[1].type = "device_status"
                          /\ new[1].devices = device_status
                          /\ \A s \in Slaves :
                                device_states'[s] =
                                    IF device_status[s] # NoStatus
                                    THEN new[1].devices[s]
                                    ELSE device_states[s]]_vars

\* a connection got the snapshot of device 5 and the system status as a reply while
\* another open connection got nothing but its initial push; and a connection got all
\* snapshots
C23_Witness ==
    \E w \in WS, v \in WS :
        /\ w # v
        /\ ep[w] = "open"
        /\ ep[v] = "open"
        /\ Len(sent_text[v]) = 1
        /\ Len(sent_text[w]) = 3
        /\ sent_text[w][2].type = "device_update"
        /\ sent_text[w][2].data.last_update > 0
        /\ sent_text[w][3].type = "system_status"
        /\ device_states[5] = sent_text[w][2].data

\* C25: shared_state keeps the latest snapshot of a device: update_device_status(id, s)
\* makes s the entry of id and changes no other entry, get_device_status(id) returns
\* the entry, and an entry changes by nothing but an update_device_status for its
\* device - in particular by nothing a caller does to the dict
\* get_all_device_status gave it.
C25_LatestSnapshotKept ==
    [][/\ \A id \in Slaves :
             \A status \in Snapshots(id) :
                 UpdateDeviceStatus(id, status) =>
                     /\ device_status'[id] = status
                     /\ \A s \in Slaves \ {id} : device_status'[s] = device_status[s]
       /\ \A id \in Slaves :
             GetDeviceStatus(id) => got'.status = device_status[id]
       /\ \A id \in Slaves :
             device_status'[id] # device_status[id] =>
                 \E status \in Snapshots(id) : UpdateDeviceStatus(id, status)]_vars

(***************************************************************************)
(* Properties of the handling of subscriber messages.                      *)
(***************************************************************************)
\* the message has all four fields of a control command
AllPresent(m) ==
    /\ m.deviceId # Absent
    /\ m.registerType # Absent
    /\ m.address # Absent
    /\ m.value # Absent

\* C8: when an endpoint has received the control command {deviceId "6", registerType
\* "HR", address 0, value 80} while the engine's server is up, holding register 0 of
\* device 6 holds 80.
C8_ControlReachesHoldingRegister ==
    [][(/\ last_other' # last_other
        /\ last_other'[2] = ControlHR0
        /\ epc = "sleep")
          => context'[6][BlockOf("HR")][0] = 80]_vars

\* C9: _handle_control acts on a command iff all four fields are present: then - also
\* for address 0 and value 0 - exactly one write is issued and the addressed cell holds
\* the value; with a field absent no write is issued, nothing is sent to a client and
\* the pools keep their members.
C9_ActedOnIffAllPresent ==
    [][last_control' # last_control =>
          LET m == last_control'
          IN  IF AllPresent(m)
              THEN /\ writes' = writes + 1
                   /\ context'[DeviceNo(m.deviceId[1])][BlockOf(m.registerType[1])]
                              [m.address[1]] = ControlValue(m)
              ELSE /\ writes' = writes
                   /\ context' = context
                   /\ inbox' = inbox
                   /\ connections' = connections]_vars

\* C10: a message an endpoint receives is dispatched by its type: a request_data
\* produces a reply to the sender, and a well-formed control produces a register write
\* (the heartbeat is the third kind).
C10_DispatchedByType ==
    [][last_other' # last_other =>
          LET w == last_other'[1]
              m == last_other'[2]
          IN  /\ m.type = "request_data" => Len(inbox'[w]) > Len(inbox[w])
              /\ (m.type = "control" /\ AllPresent(m) /\ epc = "sleep")
                    => writes' = writes + 1]_vars

=============================================================================
